---- MODULE Spec2Model ----
(***************************************************************************)
(* Market Syncer and event bus of futuresignals (package sync).            *)
(*                                                                         *)
(* Units: probabilities are hundredths (0.42 is 42), volumes are dollars,  *)
(* instants are ticks of a logical clock; instant 0 is Go's zero time.     *)
(* The two channel capacities are scaled down (see EventsCap, SubCap).     *)
(***************************************************************************)
EXTENDS Integers, Sequences, FiniteSets, TLC

\* ------------------------------------------------------------------ bounds
EventsCap == 2        \* stands for make(chan Event, 1000)
SubCap == 2           \* stands for make(chan Event, 100)
MaxSubs == 2          \* Subscribe calls explored
MaxTime == 2          \* last instant of the logical clock
MaxEmits == 3         \* emitEvent calls explored
MaxPasses == 2        \* sync passes explored (periodic and SyncNow together)
MaxBatch == 1         \* markets returned by one events fetch
MaxCalls == 2         \* UpsertMarket calls a caller makes with one market object
MaxRuns == 2          \* job runs explored
MinutesPerDay == 2    \* stands for 1440: the clock ticks in minutes where dates matter
MaxClock == 15        \* last instant of the clock where the job table is followed
MaxQuestion == 3      \* characters of a question handed to GenerateSlug
MaxWords == 2         \* words of a question handed to DetectCategory
MaxSnaps == 2         \* snapshot rows written
MaxRequests == 2      \* admin requests served

\* ------------------------------------------------- configuration constants
BreakingThreshold == 5
VolumeMultiplier == 3
MinVolume24h == 10000
Thresholds == <<50, 75, 90>>
MinProbabilityChange == 7
NewMarketMinVolume == 50000
MaxSlugLen == 80

\* ------------------------------------------------------------ event types
EventNewMarket == "new_market"
EventBreakingMove == "breaking_move"
EventVolumeSpike == "volume_spike"
EventThresholdCross == "threshold_cross"

Workers == {"loop", "now"}

VARIABLES
    config,        \* SyncerConfig: [minVolume24h, breakingThreshold, volumeMultiplier]
    cache,         \* Syncer.marketCache: market_id -> Market
    store,         \* the markets collection: market_id -> Market
    events,        \* Syncer.events, the buffered internal queue
    eventsClosed,  \* close(s.events) has run
    subscribers,   \* Syncer.subscribers: sequence of [buf, closed]
    lastRecv,      \* per subscriber: emission index of the last event its consumer took
    cancelled,     \* s.ctx is done
    started,       \* Start has run
    stopPc,        \* position of the Stop call
    snapPc,        \* snapshotLoop: "idle", "run" or "exited"
    cleanPc,       \* cleanupLoop: "idle", "run" or "exited"
    dispPc,        \* eventDispatcher: "idle", "select", "deliver", "exited"
    dispEv,        \* the event the dispatcher is delivering
    dispIdx,       \* index of the next subscriber in the delivery loop
    pc,            \* per worker: position in syncLoop / SyncNow
    todo,          \* per worker: upstream markets of the pass still to process
    cur,           \* per worker: locals of processMarketWithEvent
    emitCount,     \* number of emitEvent calls so far (emission index)
    passCount,     \* number of passes begun
    now,           \* logical clock
    panicked,      \* the process died of a send on a closed channel
    articles,      \* the articles collection of the Store, in insertion order
    genCfg,        \* which clients the Generator and the Enricher were built with
    task,          \* per task: locals of its Generator operation, result of its last one
    sched,         \* Scheduler: [jobs, pc], the job table and the position of jobLoop
    cacheMux,      \* Syncer.cacheMux: the tasks holding it for reading
    snap,          \* takeSnapshots: [pc, todo, saved]
    call,          \* a function call under examination: its arguments and its result
    corr,          \* Correlator: [users, usersAt] and, per caller of GetTrackedUsers, its position
    admin,         \* the admin API: the last request served and its response
    genCalls       \* per Generator operation: the calls the Scheduler's event loop has made

vars == <<config, cache, store, events, eventsClosed, subscribers, lastRecv,
          cancelled, started, stopPc, snapPc, cleanPc, dispPc, dispEv, dispIdx,
          pc, todo, cur, emitCount, passCount, now, panicked, articles, genCfg, task,
          sched, cacheMux, snap, call, corr, admin, genCalls>>

busVars == <<events, eventsClosed, subscribers, lastRecv, dispPc, dispEv, dispIdx>>
lifeVars == <<cancelled, started, stopPc, snapPc, cleanPc>>
syncVars == <<pc, todo, cur, passCount>>
contentVars == <<articles, genCfg, task>>
extraVars == <<sched, cacheMux, snap, call, corr, admin, genCalls>>

\* the tasks that call the Generator: the Scheduler's event loop and two job runs
Tasks == {"events", "job1", "job2"}

\* ------------------------------------------------------------- helpers
abs(x) == IF x < 0 THEN -x ELSE x

\* mutant: a probability sitting on the threshold counts as below it as well
crossedThresholdInclusive(prev, curr, threshold) ==
    (prev <= threshold /\ curr >= threshold) \/ (prev >= threshold /\ curr <= threshold)

crossedThreshold(prev, curr, threshold) ==
    (prev < threshold /\ curr >= threshold) \/ (prev >= threshold /\ curr < threshold)

directionString(prev, curr) == IF curr > prev THEN "up" ELSE "down"

\* float64 division a/b compared with m: b = 0 gives +Inf (a > 0) or NaN (a = 0)
RatioAtLeast(a, b, m) == IF b = 0 THEN a > 0 ELSE a >= m * b

NoEvent == [seq |-> 0, type |-> "none", market_id |-> "none"]
NoLocal == [busy |-> FALSE]
NoMarket == [market_id |-> "none"]
EmptyMap == [m \in {} |-> NoMarket]
NoTask == [pc |-> "idle", ret |-> "none", runs |-> 0]

\* map m with key k set to v (a Go map assignment, a Mongo upsert by key)
Put(m, k, v) == [x \in DOMAIN m \cup {k} |-> IF x = k THEN v ELSE m[x]]

\* ------------------------------------------------------------- conversion
\* an upstream price string: the decimal text of p hundredths, or text that is not a
\* number
Decimal(p) == <<TRUE, p>>
NotANumber == <<FALSE, 0>>

\* parseFloat: strconv.ParseFloat, which yields 0 and an error on other text
parseFloat(str) == [f |-> IF str[1] THEN str[2] ELSE 0, err |-> ~str[1]]

\* the loop over pm.OutcomePrices: a string that does not parse is left out
RECURSIVE ParsedPrices(_)
ParsedPrices(strs) ==
    IF strs = <<>> THEN <<>>
    ELSE (IF parseFloat(Head(strs)).err THEN <<>> ELSE <<parseFloat(Head(strs)).f>>)
         \o ParsedPrices(Tail(strs))

\* the slugs upstream gives to the event of a market and to the market itself
EventSlug(id) == <<"event-of", id>>
MarketSlug(id) == <<"market", id>>

\* "https://polymarket.com/event/" + slug
EventURL(slug) == <<"https://polymarket.com/event/", slug>>

\* Market.CalculateTrendingScore, in tenths of a point; probabilities and changes in
\* hundredths, volumes in dollars
VolumeScore(m) ==
    IF m.volume_24h >= 1000000 THEN 400
    ELSE IF m.volume_24h >= 500000 THEN 300
    ELSE IF m.volume_24h >= 100000 THEN 200
    ELSE IF m.volume_24h >= 50000 THEN 100
    ELSE 0

\* mutant: the two upper movement bands are in the wrong order
MovementScoreSwapped(m) ==
    IF abs(m.change_24h) >= 15 THEN 250
    ELSE IF abs(m.change_24h) >= 10 THEN 300
    ELSE IF abs(m.change_24h) >= 5 THEN 150
    ELSE IF abs(m.change_24h) >= 2 THEN 100
    ELSE 0

MovementScore(m) ==
    IF abs(m.change_24h) >= 15 THEN 300
    ELSE IF abs(m.change_24h) >= 10 THEN 250
    ELSE IF abs(m.change_24h) >= 5 THEN 150
    ELSE IF abs(m.change_24h) >= 2 THEN 100
    ELSE 0

\* hourlyRatio = Volume1h / (Volume24h / 24), compared without dividing
VelocityScore(m) ==
    IF m.volume_24h > 0 /\ m.volume_1h > 0
    THEN (IF 24 * m.volume_1h >= 5 * m.volume_24h THEN 200
          ELSE IF 24 * m.volume_1h >= 3 * m.volume_24h THEN 150
          ELSE IF 24 * m.volume_1h >= 2 * m.volume_24h THEN 100
          ELSE 0)
    ELSE 0

\* 10 - |Probability - 0.5| * 20
InterestScore(m) == 100 - 2 * abs(m.probability - 50)

CalculateTrendingScore(m) ==
    VolumeScore(m) + MovementScore(m) + VelocityScore(m) + InterestScore(m)

\* the market with TrendingScore recomputed from its own fields
Rescored(m) == [m EXCEPT !.trending_score = CalculateTrendingScore(m)]

\* mutant: the legacy conversion, whose URL is built from the market's own slug
convertMarketLegacy(pm, t) ==
    Rescored([market_id |-> pm.id,
     probability |-> pm.yesPrice,
     previous_prob |-> 0,
     change_24h |-> pm.oneDayPriceChange,
     volume_24h |-> pm.volume24hr,
     first_seen_at |-> 0,
     updated_at |-> t,
     outcomes |-> pm.outcomes,
     outcome_prices |-> ParsedPrices(pm.outcomePrices),
     polymarket_url |-> EventURL(pm.slug),
     volume_1h |-> 0,
     trending_score |-> 0])

\* convertMarketWithEvent: the fields the diff, the events, the outcome lists, the
\* link and the score depend on; Volume1h is left at its zero value and TrendingScore
\* is computed last, from the fields as converted
convertMarketWithEvent(pm, t) ==
    Rescored([market_id |-> pm.id,
     probability |-> pm.yesPrice,
     previous_prob |-> 0,
     change_24h |-> pm.oneDayPriceChange,
     volume_24h |-> pm.volume24hr,
     first_seen_at |-> 0,
     updated_at |-> t,
     outcomes |-> pm.outcomes,
     outcome_prices |-> ParsedPrices(pm.outcomePrices),
     polymarket_url |-> EventURL(pm.eventSlug),
     volume_1h |-> 0,
     trending_score |-> 0])

\* the market after the exists / not-exists branch has set its fields
DiffMarket(market, exists, existing, t) ==
    IF ~exists
    THEN [market EXCEPT !.first_seen_at = t]
    ELSE [market EXCEPT !.first_seen_at = existing.first_seen_at,
                        !.previous_prob = existing.probability,
                        !.change_24h = market.probability - existing.probability]

\* mutant: the breaking-move test is strict
IsBreakingMoveStrict(cfg, market) == abs(market.change_24h) > cfg.breakingThreshold

\* the breaking-move test
IsBreakingMove(cfg, market) == abs(market.change_24h) >= cfg.breakingThreshold

\* mutant: the volume-spike test divides without looking at the cached volume
VolumeSpikeCheckUnguarded(cfg, existing, market) ==
    [spike |-> RatioAtLeast(market.volume_24h, existing.volume_24h, cfg.volumeMultiplier),
     divisors |-> {existing.volume_24h}]

\* the volume-spike test: its verdict and the divisors of the divisions it evaluates
\* (&& does not evaluate its right operand when the left one is false)
VolumeSpikeCheck(cfg, existing, market) ==
    IF existing.volume_24h > 0
    THEN [spike |-> RatioAtLeast(market.volume_24h, existing.volume_24h, cfg.volumeMultiplier),
          divisors |-> {existing.volume_24h}]
    ELSE [spike |-> FALSE, divisors |-> {}]

BreakingEvent(existing, market) ==
    [type |-> EventBreakingMove, market |-> market,
     meta |-> [change |-> market.change_24h,
               previous |-> existing.probability,
               current |-> market.probability]]

SpikeEvent(existing, market) ==
    [type |-> EventVolumeSpike, market |-> market,
     meta |-> [previous_volume |-> existing.volume_24h,
               current_volume |-> market.volume_24h,
               multiplier |-> <<market.volume_24h, existing.volume_24h>>]]

CrossEvent(existing, market, t) ==
    [type |-> EventThresholdCross, market |-> market,
     meta |-> [threshold |-> t,
               direction |-> directionString(existing.probability, market.probability)]]

NewMarketEvent(market) ==
    [type |-> EventNewMarket, market |-> market, meta |-> [nil |-> TRUE]]

RECURSIVE CrossEvents(_, _, _)
CrossEvents(existing, market, i) ==
    IF i > Len(Thresholds) THEN <<>>
    ELSE (IF crossedThreshold(existing.probability, market.probability, Thresholds[i])
          THEN <<CrossEvent(existing, market, Thresholds[i])>> ELSE <<>>)
         \o CrossEvents(existing, market, i + 1)

\* mutant: a new market also runs the threshold checks, against a zero probability
DetectEventsNoBranch(cfg, market, exists, existing) ==
    IF ~exists
    THEN <<NewMarketEvent(market)>> \o CrossEvents([probability |-> 0], market, 1)
    ELSE (IF IsBreakingMove(cfg, market) THEN <<BreakingEvent(existing, market)>> ELSE <<>>)
         \o (IF VolumeSpikeCheck(cfg, existing, market).spike
             THEN <<SpikeEvent(existing, market)>> ELSE <<>>)
         \o CrossEvents(existing, market, 1)

\* the emitEvent calls of one processMarketWithEvent, in program order
DetectEvents(cfg, market, exists, existing) ==
    IF ~exists THEN <<NewMarketEvent(market)>>
    ELSE (IF IsBreakingMove(cfg, market) THEN <<BreakingEvent(existing, market)>> ELSE <<>>)
         \o (IF VolumeSpikeCheck(cfg, existing, market).spike
             THEN <<SpikeEvent(existing, market)>> ELSE <<>>)
         \o CrossEvents(existing, market, 1)


\* ------------------------------------------------------------------ inputs
RECURSIVE SeqsUpTo(_, _)
SeqsUpTo(S, n) ==
    IF n = 0 THEN {<<>>}
    ELSE LET shorter == SeqsUpTo(S, n - 1)
         IN shorter \cup {Append(q, x) : q \in {r \in shorter : Len(r) = n - 1}, x \in S}

\* polymarket.Market as handed to processMarketWithEvent, with the slug of its event;
\* YesPrice is taken as the client fills it when it parses the first outcome price
Upstream(ids, probs, volumes, changes) ==
    {[id |-> i, yesPrice |-> p, volume24hr |-> v, oneDayPriceChange |-> c,
      outcomes |-> <<"Yes", "No">>,
      outcomePrices |-> <<Decimal(p), Decimal(100 - p)>>,
      slug |-> MarketSlug(i), eventSlug |-> EventSlug(i)] :
        i \in ids, p \in probs, v \in volumes, c \in changes}

\* the markets of a /events reply as upstream sends them: two outcomes, and up to two
\* price strings that may not be numbers
RawMarkets ==
    [id : {"m1"}, volume24hr : {5000, 60000}, oneDayPriceChange : {0},
     outcomes : {<<"Yes", "No">>},
     outcomePrices : SeqsUpTo({Decimal(42), Decimal(58), NotANumber}, 2)]

\* Client.GetEvents: the reply is decoded into []Event and returned as decoded;
\* YesPrice is not a JSON field and nothing assigns it, so it keeps its zero value
GetEvents(raw) ==
    [id |-> raw.id, yesPrice |-> 0, volume24hr |-> raw.volume24hr,
     oneDayPriceChange |-> raw.oneDayPriceChange,
     outcomes |-> raw.outcomes, outcomePrices |-> raw.outcomePrices,
     slug |-> MarketSlug(raw.id), eventSlug |-> EventSlug(raw.id)]

\* the markets a sync pass gets from Client.GetEvents
EventMarkets == {GetEvents(raw) : raw \in RawMarkets}

\* results of a successful GetEvents call, flattened to the markets in iteration order
Batches(S) == SeqsUpTo(S, MaxBatch) \ {<<>>}

\* upstream markets fed to the event-bus specification: two prices of one market
BusMarkets == Upstream({"m1"}, {42, 50}, {60000}, {0})

\* upstream markets fed to the event-detection specification
DetectMarkets ==
    Upstream({"m1"}, {42, 47, 48, 49, 50, 52, 75, 90, 95}, {0, 20000, 59999, 60000}, {0})

\* upstream markets fed to the sync-pass specification
SyncMarkets == Upstream({"m1"}, {42, 50}, {5000, 60000}, {0})

\* ------------------------------------------------------------------- Init
\* NewSyncer: empty cache, open channels, no subscribers, context not cancelled
NewSyncer ==
    /\ cache = EmptyMap
    /\ events = <<>>
    /\ eventsClosed = FALSE
    /\ subscribers = <<>>
    /\ lastRecv = <<>>
    /\ cancelled = FALSE
    /\ started = FALSE
    /\ stopPc = "none"
    /\ snapPc = "idle"
    /\ cleanPc = "idle"
    /\ dispPc = "idle"
    /\ dispEv = NoEvent
    /\ dispIdx = 0
    /\ pc = [w \in Workers |-> "idle"]
    /\ todo = [w \in Workers |-> <<>>]
    /\ cur = [w \in Workers |-> NoLocal]
    /\ emitCount = 0
    /\ passCount = 0
    /\ panicked = FALSE

\* NewGenerator and NewEnricher with every API key set; an empty articles collection
\* ---------------------------------------------------------------- calendar
\* time.Format("2006-01-02"): the calendar day of an instant
Date(t) == t \div MinutesPerDay

\* time.Weekday of an instant, 0 = Sunday; the clock's day 0 is a Sunday
Weekday(t) == Date(t) % 7

\* a Schedule value: Type, Interval, the minute of the day of Hour:Minute, Days
IntervalSchedule(d) == [type |-> "interval", interval |-> d, at |-> 0, days |-> {}]
DailySchedule(at) == [type |-> "daily", interval |-> 0, at |-> at, days |-> {}]
WeeklySchedule(at, days) == [type |-> "weekly", interval |-> 0, at |-> at, days |-> days]

\* mutant: a daily run that is due exactly now is scheduled for now
calculateNextRunInclusive(schedule, t) ==
    LET today == Date(t) * MinutesPerDay + schedule.at
    IN IF schedule.type = "interval" THEN t + schedule.interval
       ELSE IF today < t THEN today + MinutesPerDay ELSE today

\* the weekly search: up to seven days from today's occurrence
RECURSIVE NextMatchingDay(_, _, _, _)
NextMatchingDay(schedule, t, next, i) ==
    IF i = 7 THEN next
    ELSE IF Weekday(next) \in schedule.days /\ next > t THEN next
    ELSE NextMatchingDay(schedule, t, next + MinutesPerDay, i + 1)

\* Scheduler.calculateNextRun, with t the instant its time.Now() reads
calculateNextRun(schedule, t) ==
    LET today == Date(t) * MinutesPerDay + schedule.at
    IN CASE schedule.type = "interval" -> t + schedule.interval
         [] schedule.type = "daily" ->
               IF today <= t THEN today + MinutesPerDay ELSE today
         [] schedule.type = "weekly" -> NextMatchingDay(schedule, t, today, 0)
         [] OTHER -> t + 1

\* Scheduler.AddJob: the job is appended with its first NextRun
AddJob(jobs, name, schedule, t) ==
    Append(jobs, [name |-> name, schedule |-> schedule,
                  next_run |-> calculateNextRun(schedule, t), last_run |-> 0, runs |-> 0])

\* NewScheduler at instant 1: registerDefaultJobs, with the hours of the day scaled to
\* the clock's day (morning briefing first, evening wrap last), the Monday digest and
\* the trending update; jobLoop waits for its ticker
NewScheduler ==
    sched = [jobs |-> AddJob(AddJob(AddJob(AddJob(<<>>,
                         "morning-briefing", DailySchedule(0), 1),
                         "evening-wrap", DailySchedule(MinutesPerDay - 1), 1),
                         "weekly-digest", WeeklySchedule(0, {1}), 1),
                         "trending-update", IntervalSchedule(1), 1),
             pc |-> "wait"]

NoSnap == [pc |-> "wait", todo |-> <<>>, saved |-> 0]
NoCall == [fn |-> "none"]

\* the callers of GetTrackedUsers
Callers == {"c1", "c2"}

\* NewCorrelator: no list cached, usersAt the zero time, cacheTTL five minutes
CacheTTL == 5
ZeroTime == 0
NoCorr == [users |-> <<>>, usersAt |-> ZeroTime,
           pc |-> [c \in Callers |-> "idle"],
           local |-> [c \in Callers |-> <<>>],
           ret |-> [c \in Callers |-> [users |-> <<>>, err |-> FALSE, cached |-> FALSE]]]

\* no admin request served yet
NoAdmin == [route |-> "none", name |-> "", status |-> 0, served |-> 0]

\* the event loop has called no Generator operation yet
NoCalls == [op \in {"breaking", "new_market"} |-> 0]

\* nothing holds the cache lock, no snapshot pass is under way, no call is examined
AtRest ==
    /\ cacheMux = {}
    /\ snap = NoSnap
    /\ call = NoCall
    /\ corr = NoCorr
    /\ admin = NoAdmin
    /\ genCalls = NoCalls

NewGenerator ==
    /\ articles = <<>>
    /\ genCfg = [llm |-> TRUE, tavily |-> TRUE, exa |-> TRUE, firecrawl |-> TRUE]
    /\ task = [t \in Tasks |-> NoTask]
    /\ NewScheduler
    /\ AtRest

DefaultSyncerConfig ==
    [minVolume24h |-> MinVolume24h,
     breakingThreshold |-> BreakingThreshold,
     volumeMultiplier |-> VolumeMultiplier]

Init ==
    /\ NewSyncer
    /\ NewGenerator
    /\ config = DefaultSyncerConfig
    /\ store = EmptyMap
    /\ now = 1

\* ----------------------------------------------------------------- clock
Tick ==
    /\ now' = now + 1
    /\ UNCHANGED <<extraVars, contentVars, config, cache, store, busVars, lifeVars, syncVars, emitCount, panicked>>

\* --------------------------------------------------------------- event bus
\* Subscribe takes eventMux.Lock, which the dispatcher's delivery loop excludes
Subscribe ==
    /\ ~panicked
    /\ dispPc # "deliver"
    /\ subscribers' = Append(subscribers, [buf |-> <<>>, closed |-> FALSE])
    /\ lastRecv' = Append(lastRecv, 0)
    /\ UNCHANGED <<extraVars, contentVars, config, cache, store, events, eventsClosed, dispPc, dispEv, dispIdx,
                   lifeVars, syncVars, emitCount, now, panicked>>

\* mutant: the queue hands events out last-in first-out
EnqueueFront(q, e) == IF Len(q) < EventsCap THEN <<e>> \o q ELSE q

\* the select of emitEvent on an open queue: append, or drop when full
EnqueueOrDrop(q, e) == IF Len(q) < EventsCap THEN Append(q, e) ELSE q

\* the inner select of eventDispatcher on one subscriber channel
SendOrDrop(sub, e) ==
    IF Len(sub.buf) < SubCap THEN [sub EXCEPT !.buf = Append(sub.buf, e)] ELSE sub

\* eventDispatcher, case <-s.ctx.Done()
DispatchExit ==
    /\ ~panicked
    /\ dispPc = "select"
    /\ cancelled
    /\ dispPc' = "exited"
    /\ UNCHANGED <<extraVars, contentVars, config, cache, store, events, eventsClosed, subscribers, lastRecv,
                   dispEv, dispIdx, lifeVars, syncVars, emitCount, now, panicked>>

\* mutant: the dispatcher drains the queue after it has seen the cancellation
DispatchDequeueDraining ==
    /\ ~panicked
    /\ dispPc \in {"select", "exited"}
    /\ events # <<>>
    /\ dispEv' = Head(events)
    /\ events' = Tail(events)
    /\ dispIdx' = 1
    /\ dispPc' = "deliver"
    /\ UNCHANGED <<extraVars, contentVars, config, cache, store, eventsClosed, subscribers, lastRecv,
                   lifeVars, syncVars, emitCount, now, panicked>>

\* eventDispatcher, case event := <-s.events, then eventMux.RLock
DispatchDequeue ==
    /\ ~panicked
    /\ dispPc = "select"
    /\ events # <<>>
    /\ dispEv' = Head(events)
    /\ events' = Tail(events)
    /\ dispIdx' = 1
    /\ dispPc' = "deliver"
    /\ UNCHANGED <<extraVars, contentVars, config, cache, store, eventsClosed, subscribers, lastRecv,
                   lifeVars, syncVars, emitCount, now, panicked>>

\* mutant: the delivery loop gives up at the first full subscriber
DispatchSendBreakOnFull ==
    /\ ~panicked
    /\ dispPc = "deliver"
    /\ dispIdx <= Len(subscribers)
    /\ subscribers' = [subscribers EXCEPT ![dispIdx] = SendOrDrop(@, dispEv)]
    /\ dispIdx' = IF Len(subscribers[dispIdx].buf) < SubCap
                  THEN dispIdx + 1 ELSE Len(subscribers) + 1
    /\ UNCHANGED <<extraVars, contentVars, config, cache, store, events, eventsClosed, lastRecv, dispPc, dispEv,
                   lifeVars, syncVars, emitCount, now, panicked>>

\* mutant: the dispatcher's send waits for room in the subscriber channel
DispatchSendBlocking ==
    /\ ~panicked
    /\ dispPc = "deliver"
    /\ dispIdx <= Len(subscribers)
    /\ Len(subscribers[dispIdx].buf) < SubCap
    /\ subscribers' = [subscribers EXCEPT ![dispIdx] = SendOrDrop(@, dispEv)]
    /\ dispIdx' = dispIdx + 1
    /\ UNCHANGED <<extraVars, contentVars, config, cache, store, events, eventsClosed, lastRecv, dispPc, dispEv,
                   lifeVars, syncVars, emitCount, now, panicked>>

\* one iteration of the loop over s.subscribers
DispatchSend ==
    /\ ~panicked
    /\ dispPc = "deliver"
    /\ dispIdx <= Len(subscribers)
    /\ subscribers' = [subscribers EXCEPT ![dispIdx] = SendOrDrop(@, dispEv)]
    /\ dispIdx' = dispIdx + 1
    /\ UNCHANGED <<extraVars, contentVars, config, cache, store, events, eventsClosed, lastRecv, dispPc, dispEv,
                   lifeVars, syncVars, emitCount, now, panicked>>

\* end of the loop: eventMux.RUnlock, back to the select
DispatchUnlock ==
    /\ ~panicked
    /\ dispPc = "deliver"
    /\ dispIdx > Len(subscribers)
    /\ dispPc' = "select"
    /\ dispEv' = NoEvent
    /\ dispIdx' = 0
    /\ UNCHANGED <<extraVars, contentVars, config, cache, store, events, eventsClosed, subscribers, lastRecv,
                   lifeVars, syncVars, emitCount, now, panicked>>

\* a subscriber (the Scheduler's eventLoop) takes the next event off its channel
Receive(i) ==
    /\ ~panicked
    /\ subscribers[i].buf # <<>>
    /\ lastRecv' = [lastRecv EXCEPT ![i] = Head(subscribers[i].buf).seq]
    /\ subscribers' = [subscribers EXCEPT ![i].buf = Tail(@)]
    /\ UNCHANGED <<extraVars, contentVars, config, cache, store, events, eventsClosed, dispPc, dispEv, dispIdx,
                   lifeVars, syncVars, emitCount, now, panicked>>


\* ------------------------------------------------------------------ store
\* Store.GetAllActiveMarkets as loadMarketCache consumes it
GetAllActiveMarkets == store

\* Store.UpsertMarket, its writes through the market pointer: UpdatedAt, and
\* FirstSeenAt when the caller left it zero
Stamped(market, t) ==
    [market EXCEPT !.updated_at = t,
                   !.first_seen_at = IF market.first_seen_at = 0 THEN t ELSE @]

\* Store.UpsertMarket: stamp the caller's object, then $set the whole document on
\* the row of its market_id (inserted when there is none)
UpsertMarket(st, market, t) == Put(st, market.market_id, Stamped(market, t))

\* the cache after UpsertMarket has stamped the object of locals l: the cache entry
\* changes with it when it is that very object
Aliased(c, l, t) ==
    IF l.cached THEN Put(c, l.market.market_id, Stamped(l.market, t)) ELSE c

\* loadMarketCache: every loaded row replaces the cache entry of its market_id
loadMarketCache(c, rows) ==
    [m \in DOMAIN c \cup DOMAIN rows |-> IF m \in DOMAIN rows THEN rows[m] ELSE c[m]]

\* -------------------------------------------------------------- lifecycle
\* Start: loadMarketCache, then the four loops are spawned
Start ==
    /\ ~panicked
    /\ ~started
    /\ stopPc = "none"
    /\ started' = TRUE
    /\ \/ cache' = loadMarketCache(cache, GetAllActiveMarkets)
       \/ cache' = cache      \* GetAllActiveMarkets failed
    /\ pc' = [pc EXCEPT !["loop"] = "fetch"]
    /\ passCount' = passCount + 1
    /\ snapPc' = "run"
    /\ cleanPc' = "run"
    /\ dispPc' = "select"
    /\ UNCHANGED <<extraVars, contentVars, config, store, events, eventsClosed, subscribers, lastRecv, cancelled,
                   stopPc, dispEv, dispIdx, todo, cur, emitCount, now, panicked>>

\* the process has ended after Stop returned and is started again on the same Store:
\* NewSyncer, then Start with its loadMarketCache
Restart ==
    /\ stopPc = "stopped"
    /\ \/ cache' = loadMarketCache(EmptyMap, GetAllActiveMarkets)
       \/ cache' = EmptyMap      \* GetAllActiveMarkets failed
    /\ events' = <<>>
    /\ eventsClosed' = FALSE
    /\ subscribers' = <<>>
    /\ lastRecv' = <<>>
    /\ cancelled' = FALSE
    /\ started' = TRUE
    /\ stopPc' = "none"
    /\ snapPc' = "run"
    /\ cleanPc' = "run"
    /\ dispPc' = "select"
    /\ dispEv' = NoEvent
    /\ dispIdx' = 0
    /\ pc' = [w \in Workers |-> IF w = "loop" THEN "fetch" ELSE "idle"]
    /\ todo' = [w \in Workers |-> <<>>]
    /\ cur' = [w \in Workers |-> NoLocal]
    /\ emitCount' = 0
    /\ passCount' = passCount + 1
    /\ panicked' = FALSE
    /\ UNCHANGED <<extraVars, contentVars, config, store, now>>

\* Stop, first statement: s.cancel()
StopCancel ==
    /\ ~panicked
    /\ started
    /\ stopPc = "none"
    /\ cancelled' = TRUE
    /\ stopPc' = "wait"
    /\ UNCHANGED <<extraVars, contentVars, config, cache, store, busVars, started, snapPc, cleanPc, syncVars,
                   emitCount, now, panicked>>

\* the four goroutines counted by s.wg have all called wg.Done
LoopsExited ==
    /\ pc["loop"] = "exited"
    /\ snapPc = "exited"
    /\ cleanPc = "exited"
    /\ dispPc = "exited"

\* mutant: Stop does not wait for the loops
StopWaitSkipped ==
    /\ ~panicked
    /\ stopPc = "wait"
    /\ stopPc' = "closeEvents"
    /\ UNCHANGED <<extraVars, contentVars, config, cache, store, busVars, cancelled, started, snapPc, cleanPc,
                   syncVars, emitCount, now, panicked>>

\* Stop: s.wg.Wait() returns
StopWait ==
    /\ ~panicked
    /\ stopPc = "wait"
    /\ LoopsExited
    /\ stopPc' = "closeEvents"
    /\ UNCHANGED <<extraVars, contentVars, config, cache, store, busVars, cancelled, started, snapPc, cleanPc,
                   syncVars, emitCount, now, panicked>>

\* Stop: close(s.events)
StopCloseEvents ==
    /\ ~panicked
    /\ stopPc = "closeEvents"
    /\ eventsClosed' = TRUE
    /\ stopPc' = "closeSubs"
    /\ UNCHANGED <<extraVars, contentVars, config, cache, store, events, subscribers, lastRecv, dispPc, dispEv,
                   dispIdx, cancelled, started, snapPc, cleanPc, syncVars, emitCount, now,
                   panicked>>

\* Stop: under eventMux.Lock, close every subscriber channel
StopCloseSubs ==
    /\ ~panicked
    /\ stopPc = "closeSubs"
    /\ dispPc # "deliver"
    /\ subscribers' = [i \in DOMAIN subscribers |-> [subscribers[i] EXCEPT !.closed = TRUE]]
    /\ stopPc' = "stopped"
    /\ UNCHANGED <<extraVars, contentVars, config, cache, store, events, eventsClosed, lastRecv, dispPc, dispEv,
                   dispIdx, cancelled, started, snapPc, cleanPc, syncVars, emitCount, now,
                   panicked>>

\* snapshotLoop, case <-s.ctx.Done()
SnapshotExit ==
    /\ ~panicked
    /\ snapPc = "run"
    /\ snap.pc = "wait"
    /\ cancelled
    /\ snapPc' = "exited"
    /\ UNCHANGED <<extraVars, contentVars, config, cache, store, busVars, cancelled, started, stopPc, cleanPc,
                   syncVars, emitCount, now, panicked>>

\* cleanupLoop, case <-s.ctx.Done()
CleanupExit ==
    /\ ~panicked
    /\ cleanPc = "run"
    /\ cancelled
    /\ cleanPc' = "exited"
    /\ UNCHANGED <<extraVars, contentVars, config, cache, store, busVars, cancelled, started, stopPc, snapPc,
                   syncVars, emitCount, now, panicked>>


\* ------------------------------------------------------------- sync passes
\* where a worker goes when its syncMarkets call returns
AfterPass(w) == IF w = "loop" THEN "select" ELSE "idle"

\* syncLoop, case <-ticker.C
LoopTick ==
    /\ ~panicked
    /\ pc["loop"] = "select"
    /\ pc' = [pc EXCEPT !["loop"] = "fetch"]
    /\ passCount' = passCount + 1
    /\ UNCHANGED <<extraVars, contentVars, config, cache, store, busVars, lifeVars, todo, cur, emitCount, now, panicked>>

\* syncLoop, case <-s.ctx.Done()
LoopExit ==
    /\ ~panicked
    /\ pc["loop"] = "select"
    /\ cancelled
    /\ pc' = [pc EXCEPT !["loop"] = "exited"]
    /\ UNCHANGED <<extraVars, contentVars, config, cache, store, busVars, lifeVars, todo, cur, passCount, emitCount,
                   now, panicked>>

\* AdminSyncNow: go s.syncer.SyncNow(), a goroutine s.wg does not count;
\* requests are taken once the engine runs
SyncNow ==
    /\ ~panicked
    /\ pc["now"] = "idle"
    /\ started
    /\ pc' = [pc EXCEPT !["now"] = "fetch"]
    /\ passCount' = passCount + 1
    /\ UNCHANGED <<extraVars, contentVars, config, cache, store, busVars, lifeVars, todo, cur, emitCount, now, panicked>>

\* mutant: a failed fetch empties the cache
FetchFailClearing(w) ==
    /\ ~panicked
    /\ pc[w] = "fetch"
    /\ pc' = [pc EXCEPT ![w] = AfterPass(w)]
    /\ cache' = EmptyMap
    /\ UNCHANGED <<extraVars, contentVars, config, store, busVars, lifeVars, todo, cur,
                   passCount, emitCount, now, panicked>>

\* syncMarkets: GetEvents fails (always once the context is cancelled) and the pass returns
FetchFail(w) ==
    /\ ~panicked
    /\ pc[w] = "fetch"
    /\ pc' = [pc EXCEPT ![w] = AfterPass(w)]
    /\ UNCHANGED <<extraVars, contentVars, config, cache, store, busVars, lifeVars, todo, cur, passCount, emitCount,
                   now, panicked>>

\* syncMarkets: GetEvents returns the markets of the top events
FetchOk(w, batch) ==
    /\ ~panicked
    /\ pc[w] = "fetch"
    /\ ~cancelled
    /\ todo' = [todo EXCEPT ![w] = batch]
    /\ pc' = [pc EXCEPT ![w] = "process"]
    /\ UNCHANGED <<extraVars, contentVars, config, cache, store, busVars, lifeVars, cur, passCount, emitCount, now,
                   panicked>>

\* mutant: a market below the volume filter is evicted from the cache
ProcSkipEvicting(w) ==
    /\ ~panicked
    /\ pc[w] = "process"
    /\ todo[w] # <<>>
    /\ Head(todo[w]).volume24hr < config.minVolume24h
    /\ todo' = [todo EXCEPT ![w] = Tail(@)]
    /\ cache' = [m \in DOMAIN cache \ {Head(todo[w]).id} |-> cache[m]]
    /\ UNCHANGED <<extraVars, contentVars, config, store, busVars, lifeVars, pc, cur, passCount, emitCount,
                   now, panicked>>

\* processMarketWithEvent, the volume filter: the market is skipped
ProcSkip(w) ==
    /\ ~panicked
    /\ pc[w] = "process"
    /\ todo[w] # <<>>
    /\ Head(todo[w]).volume24hr < config.minVolume24h
    /\ todo' = [todo EXCEPT ![w] = Tail(@)]
    /\ UNCHANGED <<extraVars, contentVars, config, cache, store, busVars, lifeVars, pc, cur, passCount, emitCount,
                   now, panicked>>

\* the locals of processMarketWithEvent after the cache lookup and the diff
ReadLocals(cfg, pm, c, t) ==
    LET converted == convertMarketWithEvent(pm, t)
        exists == converted.market_id \in DOMAIN c
        existing == IF exists THEN c[converted.market_id] ELSE NoMarket
        market == DiffMarket(converted, exists, existing, t)
    IN [busy |-> TRUE, market |-> market, exists |-> exists, existing |-> existing,
        pending |-> DetectEvents(cfg, market, exists, existing), emitted |-> <<>>,
        cached |-> FALSE,
        divisors |-> IF exists THEN VolumeSpikeCheck(cfg, existing, market).divisors ELSE {}]

\* processMarketWithEvent: convert, look the market up under cacheMux.RLock, diff
ProcRead(w) ==
    /\ ~panicked
    /\ pc[w] = "process"
    /\ todo[w] # <<>>
    /\ Head(todo[w]).volume24hr >= config.minVolume24h
    /\ cur' = [cur EXCEPT ![w] = ReadLocals(config, Head(todo[w]), cache, now)]
    /\ pc' = [pc EXCEPT ![w] = IF cur'[w].pending = <<>> THEN "cachewrite" ELSE "emit"]
    /\ UNCHANGED <<extraVars, contentVars, config, cache, store, busVars, lifeVars, todo, passCount, emitCount, now,
                   panicked>>

\* the event as it travels on the bus: stamped with its emission index
Stamp(e, n) == [seq |-> n, type |-> e.type, market |-> e.market, meta |-> e.meta]

\* emitEvent: the next event of the update is offered to the internal queue;
\* a send on the closed queue panics
ProcEmit(w) ==
    /\ ~panicked
    /\ pc[w] = "emit"
    /\ LET e == Stamp(Head(cur[w].pending), emitCount + 1)
       IN /\ emitCount' = emitCount + 1
          /\ IF eventsClosed
             THEN /\ panicked' = TRUE
                  /\ UNCHANGED <<events, cur, pc>>
             ELSE /\ events' = EnqueueOrDrop(events, e)
                  /\ cur' = [cur EXCEPT ![w].pending = Tail(@), ![w].emitted = Append(@, e)]
                  /\ pc' = [pc EXCEPT ![w] =
                              IF Tail(cur[w].pending) = <<>> THEN "cachewrite" ELSE "emit"]
                  /\ UNCHANGED panicked
    /\ UNCHANGED <<extraVars, contentVars, config, cache, store, eventsClosed, subscribers, lastRecv, dispPc, dispEv,
                   dispIdx, lifeVars, todo, passCount, now>>

\* processMarketWithEvent: s.marketCache[market.MarketID] = market under cacheMux.Lock
ProcCacheWrite(w) ==
    /\ ~panicked
    /\ pc[w] = "cachewrite"
    /\ cacheMux = {}
    /\ cache' = Put(cache, cur[w].market.market_id, cur[w].market)
    /\ cur' = [v \in Workers |->
                 IF v = w THEN [cur[v] EXCEPT !.cached = TRUE]
                 ELSE IF cur[v].busy /\ cur[v].market.market_id = cur[w].market.market_id
                      THEN [cur[v] EXCEPT !.cached = FALSE]
                      ELSE cur[v]]
    /\ pc' = [pc EXCEPT ![w] = "upsert"]
    /\ UNCHANGED <<extraVars, contentVars, config, store, busVars, lifeVars, todo, passCount, emitCount, now,
                   panicked>>

\* processMarketWithEvent: UpsertMarket succeeds
ProcUpsertOk(w) ==
    /\ ~panicked
    /\ pc[w] = "upsert"
    /\ ~cancelled
    /\ store' = UpsertMarket(store, cur[w].market, now)
    /\ cache' = Aliased(cache, cur[w], now)
    /\ pc' = [pc EXCEPT ![w] = "process"]
    /\ todo' = [todo EXCEPT ![w] = Tail(@)]
    /\ cur' = [cur EXCEPT ![w] = NoLocal]
    /\ UNCHANGED <<extraVars, contentVars, config, busVars, lifeVars, passCount, emitCount, now, panicked>>

\* mutant: a failed upsert ends the pass
ProcUpsertFailAborting(w) ==
    /\ ~panicked
    /\ pc[w] = "upsert"
    /\ cache' = Aliased(cache, cur[w], now)
    /\ pc' = [pc EXCEPT ![w] = AfterPass(w)]
    /\ todo' = [todo EXCEPT ![w] = <<>>]
    /\ cur' = [cur EXCEPT ![w] = NoLocal]
    /\ UNCHANGED <<extraVars, contentVars, config, store, busVars, lifeVars, passCount, emitCount, now, panicked>>

\* processMarketWithEvent: UpsertMarket fails (always once the context is cancelled),
\* after it has stamped the object; the error is logged and the pass goes on
ProcUpsertFail(w) ==
    /\ ~panicked
    /\ pc[w] = "upsert"
    /\ cache' = Aliased(cache, cur[w], now)
    /\ pc' = [pc EXCEPT ![w] = "process"]
    /\ todo' = [todo EXCEPT ![w] = Tail(@)]
    /\ cur' = [cur EXCEPT ![w] = NoLocal]
    /\ UNCHANGED <<extraVars, contentVars, config, store, busVars, lifeVars, passCount, emitCount, now, panicked>>

\* a caller calls Store.UpsertMarket with the market object it holds, and keeps the
\* object, stamped by the call, for its next call
UpsertAgain(w) ==
    /\ ~panicked
    /\ pc[w] = "upsert"
    /\ store' = UpsertMarket(store, cur[w].market, now)
    /\ cache' = Aliased(cache, cur[w], now)
    /\ cur' = [cur EXCEPT ![w].market = Stamped(@, now), ![w].calls = @ + 1]
    /\ UNCHANGED <<extraVars, contentVars, config, busVars, lifeVars, pc, todo, passCount, emitCount,
                   now, panicked>>

\* syncMarkets: every market processed, updateTrendingScores under cacheMux.Lock
\* (the score of every cached object is recomputed from its fields, also of an object
\* another pass holds), return
PassEnd(w) ==
    /\ ~panicked
    /\ pc[w] = "process"
    /\ todo[w] = <<>>
    /\ cacheMux = {}
    /\ cache' = [id \in DOMAIN cache |-> Rescored(cache[id])]
    /\ cur' = [v \in Workers |->
                 IF cur[v].busy /\ cur[v].cached
                 THEN [cur[v] EXCEPT !.market = Rescored(@)] ELSE cur[v]]
    /\ pc' = [pc EXCEPT ![w] = AfterPass(w)]
    /\ UNCHANGED <<extraVars, contentVars, config, store, busVars, lifeVars, todo, passCount, emitCount,
                   now, panicked>>


\* ---------------------------------------------------------------- generator
\* Generator.generateSlug: the slugged headline and the minute, "20060102-1504"
generateSlug(headline, t) == [prefix |-> "breaking", key |-> headline, stamp |-> t]

\* the slug of a new-market article: the market's slug and the day, "20060102"
newMarketSlug(market, t) ==
    [prefix |-> "new-market", key |-> market.market_id, stamp |-> Date(t)]

\* the slug of a briefing: the briefing type and the day
briefingSlug(briefingType, t) ==
    [prefix |-> "briefing", key |-> briefingType, stamp |-> Date(t)]

BriefingTypes == {"morning", "evening"}

\* what the chat completion endpoint can answer: JSON of the requested shape, text
\* that json.Unmarshal rejects, or no answer at all
LLMReplies == {"json", "malformed", "unavailable"}

\* mutant: a reply that does not parse is taken as an empty result
ChatJSONLenient(reply) == IF reply = "unavailable" THEN "err_chat" ELSE "ok"

\* Client.ChatJSON: the error it returns
ChatJSON(reply) ==
    IF reply = "unavailable" THEN "err_chat"
    ELSE IF reply = "malformed" THEN "err_parse"
    ELSE "ok"

\* Generator.generateNarrative
generateNarrative(cfg, reply) ==
    IF ~cfg.llm THEN [err |-> "err_no_llm", copy |-> "none"]
    ELSE [err |-> ChatJSON(reply), copy |-> "llm"]

\* mutant: without a client the briefing copy fails like the narrative does
generateBriefingContentNoFallback(cfg, reply) ==
    IF ~cfg.llm THEN [err |-> "err_no_llm", copy |-> "none"]
    ELSE [err |-> ChatJSON(reply), copy |-> "llm"]

\* Generator.generateBriefingContent: templated copy when no client is configured
generateBriefingContent(cfg, reply) ==
    IF ~cfg.llm THEN [err |-> "ok", copy |-> "fallback"]
    ELSE [err |-> ChatJSON(reply), copy |-> "llm"]

\* Generator.generateNewMarketContent: templated copy when no client is configured
generateNewMarketContent(cfg, reply) ==
    IF ~cfg.llm THEN [err |-> "ok", copy |-> "fallback"]
    ELSE [err |-> ChatJSON(reply), copy |-> "llm"]

\* the content of an operation, by its flavor
generateContent(op, cfg, reply) ==
    IF op = "breaking" THEN generateNarrative(cfg, reply)
    ELSE IF op = "briefing" THEN generateBriefingContent(cfg, reply)
    ELSE generateNewMarketContent(cfg, reply)

\* the slug of an operation's article, from the instant the operation reads
articleSlug(op, arg, t) ==
    IF op = "breaking" THEN generateSlug("headline", t)
    ELSE IF op = "briefing" THEN briefingSlug(arg, t)
    ELSE newMarketSlug(arg.market, t)

\* the unique index on articles.slug
SlugTaken(arts, slug) == \E k \in 1..Len(arts) : arts[k].slug = slug

\* mutant: the articles collection has no unique index on slug
SaveArticleNoIndex(arts, a) == [articles |-> Append(arts, a), err |-> "ok"]

\* Store.SaveArticle: InsertOne, rejected when the slug is taken
SaveArticle(arts, a) ==
    IF SlugTaken(arts, a.slug) THEN [articles |-> arts, err |-> "err_duplicate"]
    ELSE [articles |-> Append(arts, a), err |-> "ok"]

\* --------------------------------------------------------------- enricher
\* what the providers answer to one Enrich call: the news search fails or returns a
\* number of articles, the semantic search and the scrapes fail or succeed, and one
\* of the two parallel searches finishes first. Only providers that are enabled
\* are asked.
EnrichOutcomes(cfg) ==
    [tavily : IF cfg.tavily THEN {"fail", "empty", "one"} ELSE {"fail"},
     exa : IF cfg.exa THEN {"fail", "ok"} ELSE {"fail"},
     scrape : IF cfg.firecrawl THEN {"fail", "ok"} ELSE {"fail"},
     exaFirst : IF cfg.tavily /\ cfg.exa THEN BOOLEAN ELSE {FALSE}]

\* Enricher.Enrich: the parallel searches, then the deep scrape of the news URLs;
\* ScrapeMultiple drops failed scrapes and never returns an error
Enrich(cfg, out) ==
    LET tav == cfg.tavily /\ out.tavily # "fail"
        exa == cfg.exa /\ out.exa # "fail"
        news == IF tav /\ out.tavily = "one" THEN 1 ELSE 0
        t == IF tav THEN <<"tavily">> ELSE <<>>
        x == IF exa THEN <<"exa">> ELSE <<>>
        fire == cfg.firecrawl /\ news > 0
    IN [err |-> FALSE,
        sources |-> (IF out.exaFirst THEN x \o t ELSE t \o x)
                       \o (IF fire THEN <<"firecrawl">> ELSE <<>>),
        news |-> news,
        semantic |-> IF exa THEN 1 ELSE 0,
        deep |-> IF fire /\ out.scrape = "ok" THEN news ELSE 0,
        asked |-> out]

\* ------------------------------------------------------- generator actions
\* Scheduler.processEvent: the Generator operation an event leads to, if any
\* mutant: every new_market and threshold_cross event gets an article
processEventUngated(e) ==
    IF e.type = EventBreakingMove THEN "breaking"
    ELSE IF e.type = EventNewMarket THEN "new_market"
    ELSE IF e.type = EventThresholdCross THEN "breaking"
    ELSE "none"

processEvent(e) ==
    IF e.type = EventBreakingMove THEN "breaking"
    ELSE IF e.type = EventNewMarket
         THEN (IF e.market.volume_24h >= NewMarketMinVolume THEN "new_market" ELSE "none")
    ELSE IF e.type = EventThresholdCross
         THEN (IF e.meta.threshold >= 75 \/ e.meta.threshold <= 25
               THEN "breaking" ELSE "none")
    ELSE "none"

\* Scheduler.eventLoop: the next event is taken off the subscription and
\* processEvent is called in the loop's own goroutine
SchedReceive ==
    /\ ~panicked
    /\ task["events"].pc = "idle"
    /\ Len(subscribers) >= 1
    /\ subscribers[1].buf # <<>>
    /\ LET e == Head(subscribers[1].buf)
           op == processEvent(e)
       IN /\ lastRecv' = [lastRecv EXCEPT ![1] = e.seq]
          /\ subscribers' = [subscribers EXCEPT ![1].buf = Tail(@)]
          /\ task' = [task EXCEPT !["events"] =
                        IF op = "none" THEN [@ EXCEPT !.runs = @ + 1]
                        ELSE [pc |-> "enrich", ret |-> @.ret, runs |-> @.runs + 1,
                              op |-> op, arg |-> e]]
          /\ genCalls' = IF op = "none" THEN genCalls ELSE [genCalls EXCEPT ![op] = @ + 1]
    /\ UNCHANGED <<sched, cacheMux, snap, call, corr, admin, articles, genCfg, config, cache,
                   store, events, eventsClosed, dispPc, dispEv, dispIdx, lifeVars, syncVars,
                   emitCount, now, panicked>>

\* GenerateBreaking, GenerateNewMarket: the Enricher is asked for context
GenEnrich(t, out) ==
    /\ ~panicked
    /\ task[t].pc = "enrich"
    /\ task' = [task EXCEPT ![t] =
                  [pc |-> "llm", ret |-> @.ret, runs |-> @.runs, op |-> @.op,
                   arg |-> @.arg, enriched |-> Enrich(genCfg, out)]]
    /\ UNCHANGED <<extraVars, articles, genCfg, config, cache, store, busVars, lifeVars, syncVars,
                   emitCount, now, panicked>>

\* Scheduler.runJob: a briefing job starts GenerateBriefing, which collects the top
\* markets of its categories; with none the operation fails
JobRun(t, briefingType, found) ==
    /\ ~panicked
    /\ task[t].pc = "idle"
    /\ task' = [task EXCEPT ![t] =
                  IF found = {}
                  THEN [pc |-> "idle", ret |-> "err_no_markets", runs |-> @.runs + 1]
                  ELSE [pc |-> "llm", ret |-> @.ret, runs |-> @.runs + 1,
                        op |-> "briefing", arg |-> briefingType,
                        enriched |-> [err |-> FALSE, sources |-> <<>>]]]
    /\ UNCHANGED <<extraVars, articles, genCfg, config, cache, store, busVars, lifeVars, syncVars,
                   emitCount, now, panicked>>

\* the language model is asked (when a client is configured) and its reply arrives
GenAsk(t, reply) ==
    /\ ~panicked
    /\ task[t].pc = "llm"
    /\ task' = [task EXCEPT ![t] =
                  [pc |-> "parse", ret |-> @.ret, runs |-> @.runs, op |-> @.op,
                   arg |-> @.arg, enriched |-> @.enriched, reply |-> reply]]
    /\ UNCHANGED <<extraVars, articles, genCfg, config, cache, store, busVars, lifeVars, syncVars,
                   emitCount, now, panicked>>

\* the content is built from the reply; on an error the operation returns it,
\* otherwise the article is assembled with a slug of the current time
GenContent(t) ==
    /\ ~panicked
    /\ task[t].pc = "parse"
    /\ LET c == generateContent(task[t].op, genCfg, task[t].reply)
       IN task' = [task EXCEPT ![t] =
                     IF c.err # "ok"
                     THEN [pc |-> "idle", ret |-> c.err, runs |-> @.runs]
                     ELSE [pc |-> "save", ret |-> @.ret, runs |-> @.runs,
                           article |-> [slug |-> articleSlug(@.op, @.arg, now),
                                        type |-> @.op,
                                        copy |-> c.copy,
                                        sources |-> @.enriched.sources,
                                        at |-> now]]]
    /\ UNCHANGED <<extraVars, articles, genCfg, config, cache, store, busVars, lifeVars, syncVars,
                   emitCount, now, panicked>>

\* Store.SaveArticle returns: the article is inserted, or the unique index rejects it
GenSave(t) ==
    /\ ~panicked
    /\ task[t].pc = "save"
    /\ LET r == SaveArticle(articles, task[t].article)
       IN /\ articles' = r.articles
          /\ task' = [task EXCEPT ![t] = [pc |-> "idle", ret |-> r.err, runs |-> @.runs]]
    /\ UNCHANGED <<extraVars, genCfg, config, cache, store, busVars, lifeVars, syncVars,
                   emitCount, now, panicked>>

\* Store.SaveArticle fails for another reason (the Store is unreachable, the
\* operation's deadline has passed)
GenSaveFail(t) ==
    /\ ~panicked
    /\ task[t].pc = "save"
    /\ task' = [task EXCEPT ![t] = [pc |-> "idle", ret |-> "err_store", runs |-> @.runs]]
    /\ UNCHANGED <<extraVars, articles, genCfg, config, cache, store, busVars, lifeVars, syncVars,
                   emitCount, now, panicked>>

\* ------------------------------------------------------------ specification
\* the explored part of the unbounded counters
WithinTime == now < MaxTime
WithinSubs == Len(subscribers) < MaxSubs
WithinPasses == passCount < MaxPasses
WithinEmits == emitCount < MaxEmits
WithinCalls == cur["loop"].calls < MaxCalls

BusActions ==
    \/ WithinSubs /\ Subscribe
    \/ DispatchExit
    \/ DispatchDequeue
    \/ DispatchSend
    \/ DispatchUnlock
    \/ \E i \in DOMAIN subscribers : Receive(i)

LifeActions ==
    \/ Start
    \/ StopCancel
    \/ StopWait
    \/ StopCloseEvents
    \/ StopCloseSubs
    \/ SnapshotExit
    \/ CleanupExit

PassActions ==
    \/ WithinPasses /\ LoopTick
    \/ LoopExit
    \/ WithinPasses /\ SyncNow
    \/ \E w \in Workers : FetchFail(w)
    \/ \E w \in Workers : ProcRead(w)
    \/ \E w \in Workers : ProcCacheWrite(w)
    \/ \E w \in Workers : ProcUpsertOk(w)
    \/ \E w \in Workers : ProcUpsertFail(w)
    \/ \E w \in Workers : PassEnd(w)

\* the whole Syncer
Next ==
    \/ WithinTime /\ Tick
    \/ BusActions
    \/ LifeActions
    \/ PassActions
    \/ \E w \in Workers : WithinEmits /\ ProcEmit(w)
    \/ \E w \in Workers : ProcSkip(w)
    \/ \E w \in Workers, batch \in Batches(SyncMarkets) : FetchOk(w, batch)

Spec == Init /\ [][Next]_vars

\* the event bus and the lifecycle, fed by both kinds of sync pass
NextBus ==
    \/ BusActions
    \/ LifeActions
    \/ PassActions
    \/ \E w \in Workers : WithinEmits /\ ProcEmit(w)
    \/ \E w \in Workers, batch \in Batches(BusMarkets) : FetchOk(w, batch)

SpecBus == Init /\ [][NextBus]_vars

\* the sync passes over cache and Store, periodic and admin-triggered, on a running
\* Syncer; the bus only takes what emitEvent offers
NextSync ==
    \/ WithinTime /\ Tick
    \/ Start
    \/ WithinPasses /\ LoopTick
    \/ WithinPasses /\ SyncNow
    \/ \E w \in Workers : FetchFail(w)
    \/ \E w \in Workers, batch \in Batches(SyncMarkets) : FetchOk(w, batch)
    \/ \E w \in Workers : ProcSkip(w)
    \/ \E w \in Workers : ProcRead(w)
    \/ \E w \in Workers : ProcEmit(w)
    \/ \E w \in Workers : ProcCacheWrite(w)
    \/ \E w \in Workers : ProcUpsertOk(w)
    \/ \E w \in Workers : ProcUpsertFail(w)
    \/ \E w \in Workers : PassEnd(w)

SpecSync == Init /\ [][NextSync]_vars

\* a running Syncer whose first fetch returned two observations of one market, under
\* the configurations the environment can set
InitDetect ==
    /\ config \in [minVolume24h : {0, MinVolume24h},
                   breakingThreshold : {BreakingThreshold, MinProbabilityChange},
                   volumeMultiplier : {VolumeMultiplier}]
    /\ cache = EmptyMap
    /\ store = EmptyMap
    /\ events = <<>>
    /\ eventsClosed = FALSE
    /\ subscribers = <<>>
    /\ lastRecv = <<>>
    /\ cancelled = FALSE
    /\ started = TRUE
    /\ stopPc = "none"
    /\ snapPc = "run"
    /\ cleanPc = "run"
    /\ dispPc = "select"
    /\ dispEv = NoEvent
    /\ dispIdx = 0
    /\ pc = [w \in Workers |-> IF w = "loop" THEN "process" ELSE "idle"]
    /\ todo \in {[w \in Workers |-> IF w = "loop" THEN <<a, b>> ELSE <<>>] :
                    a \in DetectMarkets, b \in DetectMarkets}
    /\ cur = [w \in Workers |-> NoLocal]
    /\ emitCount = 0
    /\ passCount = 1
    /\ panicked = FALSE
    /\ now = 1
    /\ NewGenerator

\* one sync pass of the periodic loop, market by market
NextDetect ==
    \/ ProcSkip("loop")
    \/ ProcRead("loop")
    \/ ProcEmit("loop")
    \/ ProcCacheWrite("loop")
    \/ ProcUpsertOk("loop")
    \/ ProcUpsertFail("loop")
    \/ PassEnd("loop")

SpecDetect == InitDetect /\ [][NextDetect]_vars

\* the markets a caller can hand to UpsertMarket: FirstSeenAt zero or set
UpsertArguments ==
    [market_id : {"m1"}, probability : {42, 50}, previous_prob : {0}, change_24h : {0},
     volume_24h : {20000, 60000}, first_seen_at : {0, 1}, updated_at : {0, 1}]

\* the markets collection before the calls: empty, or holding a row of the market
UpsertStores ==
    {EmptyMap} \cup
    {Put(EmptyMap, "m1", r) :
        r \in [market_id : {"m1"}, probability : {42, 50}, previous_prob : {0},
               change_24h : {0}, volume_24h : {60000}, first_seen_at : {1},
               updated_at : {1}]}

\* a caller about to call UpsertMarket with a market object, on a Store that may
\* hold a row of that market
InitUpsert ==
    /\ config = DefaultSyncerConfig
    /\ cache = EmptyMap
    /\ store \in UpsertStores
    /\ events = <<>>
    /\ eventsClosed = FALSE
    /\ subscribers = <<>>
    /\ lastRecv = <<>>
    /\ cancelled = FALSE
    /\ started = TRUE
    /\ stopPc = "none"
    /\ snapPc = "run"
    /\ cleanPc = "run"
    /\ dispPc = "select"
    /\ dispEv = NoEvent
    /\ dispIdx = 0
    /\ pc = [w \in Workers |-> IF w = "loop" THEN "upsert" ELSE "idle"]
    /\ todo = [w \in Workers |-> <<>>]
    /\ cur \in {[w \in Workers |->
                   IF w = "loop"
                   THEN [busy |-> TRUE, market |-> m, cached |-> FALSE, calls |-> 0]
                   ELSE NoLocal] : m \in UpsertArguments}
    /\ emitCount = 0
    /\ passCount = 1
    /\ panicked = FALSE
    /\ now = 1
    /\ NewGenerator

\* UpsertMarket called again and again with one market object, as time passes
NextUpsert ==
    \/ WithinTime /\ Tick
    \/ WithinCalls /\ UpsertAgain("loop")

SpecUpsert == InitUpsert /\ [][NextUpsert]_vars

\* the events a running Syncer has delivered for market m1: its listing, and a move
\* from 0.42 to 0.50
DeliveredEvents ==
    LET listing == CHOOSE pm \in BusMarkets : pm.yesPrice = 42
        update == CHOOSE pm \in BusMarkets : pm.yesPrice = 50
        first == DiffMarket(convertMarketWithEvent(listing, 1), FALSE, NoMarket, 1)
        second == DiffMarket(convertMarketWithEvent(update, 1), TRUE, first, 1)
    IN {Stamp(NewMarketEvent(first), 1), Stamp(BreakingEvent(first, second), 2)}

\* a running engine: the Scheduler's subscription holds at most one delivered event,
\* the Store holds market m1 or nothing, and a language model client is configured
\* or not; the Enricher has the news search only
InitContent ==
    /\ config = DefaultSyncerConfig
    /\ cache = EmptyMap
    /\ store \in UpsertStores
    /\ events = <<>>
    /\ eventsClosed = FALSE
    /\ subscribers \in {<<[buf |-> b, closed |-> FALSE]>> :
                            b \in {<<>>} \cup {<<e>> : e \in DeliveredEvents}}
    /\ lastRecv = <<0>>
    /\ cancelled = FALSE
    /\ started = TRUE
    /\ stopPc = "none"
    /\ snapPc = "run"
    /\ cleanPc = "run"
    /\ dispPc = "select"
    /\ dispEv = NoEvent
    /\ dispIdx = 0
    /\ pc = [w \in Workers |-> IF w = "loop" THEN "select" ELSE "idle"]
    /\ todo = [w \in Workers |-> <<>>]
    /\ cur = [w \in Workers |-> NoLocal]
    /\ emitCount = 2
    /\ passCount = 2
    /\ panicked = FALSE
    /\ now = 1
    /\ articles = <<>>
    /\ genCfg \in [llm : BOOLEAN, tavily : {TRUE}, exa : {FALSE}, firecrawl : {FALSE}]
    /\ task = [t \in Tasks |-> NoTask]
    /\ NewScheduler
    /\ AtRest

\* the job runs begun so far
JobRuns == task["job1"].runs + task["job2"].runs
WithinRuns == JobRuns < MaxRuns

\* the Generator at work: breaking and new-market articles from bus events, briefings
\* from job runs, as the minutes pass
NextContent ==
    \/ WithinTime /\ Tick
    \/ SchedReceive
    \/ \E out \in EnrichOutcomes(genCfg) : GenEnrich("events", out)
    \/ \E t \in {"job1", "job2"}, b \in BriefingTypes, found \in SUBSET DOMAIN store :
           WithinRuns /\ JobRun(t, b, found)
    \/ \E t \in Tasks, reply \in LLMReplies : GenAsk(t, reply)
    \/ \E t \in Tasks : GenContent(t)
    \/ \E t \in Tasks : GenSave(t)
    \/ \E t \in Tasks : GenSaveFail(t)

SpecContent == InitContent /\ [][NextContent]_vars

\* a running engine whose Scheduler has a breaking_move event waiting, under every
\* combination of enrichment keys
InitEnrich ==
    /\ config = DefaultSyncerConfig
    /\ cache = EmptyMap
    /\ store = EmptyMap
    /\ events = <<>>
    /\ eventsClosed = FALSE
    /\ subscribers \in {<<[buf |-> <<e>>, closed |-> FALSE]>> :
                            e \in {d \in DeliveredEvents : d.type = EventBreakingMove}}
    /\ lastRecv = <<0>>
    /\ cancelled = FALSE
    /\ started = TRUE
    /\ stopPc = "none"
    /\ snapPc = "run"
    /\ cleanPc = "run"
    /\ dispPc = "select"
    /\ dispEv = NoEvent
    /\ dispIdx = 0
    /\ pc = [w \in Workers |-> IF w = "loop" THEN "select" ELSE "idle"]
    /\ todo = [w \in Workers |-> <<>>]
    /\ cur = [w \in Workers |-> NoLocal]
    /\ emitCount = 2
    /\ passCount = 2
    /\ panicked = FALSE
    /\ now = 1
    /\ articles = <<>>
    /\ genCfg \in [llm : {TRUE}, tavily : BOOLEAN, exa : BOOLEAN, firecrawl : BOOLEAN]
    /\ task = [t \in Tasks |-> NoTask]
    /\ NewScheduler
    /\ AtRest

\* one GenerateBreaking operation with its Enrich call
NextEnrich ==
    \/ SchedReceive
    \/ \E out \in EnrichOutcomes(genCfg) : GenEnrich("events", out)
    \/ \E reply \in LLMReplies : GenAsk("events", reply)
    \/ GenContent("events")
    \/ GenSave("events")
    \/ GenSaveFail("events")

SpecEnrich == InitEnrich /\ [][NextEnrich]_vars

\* the engine after construction: NewSyncer, NewGenerator with the news search only,
\* and NewScheduler, which subscribes to the bus
InitEvents ==
    /\ cache = EmptyMap
    /\ events = <<>>
    /\ eventsClosed = FALSE
    /\ subscribers = <<[buf |-> <<>>, closed |-> FALSE]>>
    /\ lastRecv = <<0>>
    /\ cancelled = FALSE
    /\ started = FALSE
    /\ stopPc = "none"
    /\ snapPc = "idle"
    /\ cleanPc = "idle"
    /\ dispPc = "idle"
    /\ dispEv = NoEvent
    /\ dispIdx = 0
    /\ pc = [w \in Workers |-> "idle"]
    /\ todo = [w \in Workers |-> <<>>]
    /\ cur = [w \in Workers |-> NoLocal]
    /\ emitCount = 0
    /\ passCount = 0
    /\ panicked = FALSE
    /\ config = DefaultSyncerConfig
    /\ store = EmptyMap
    /\ now = 1
    /\ articles = <<>>
    /\ genCfg = [llm |-> TRUE, tavily |-> TRUE, exa |-> FALSE, firecrawl |-> FALSE]
    /\ task = [t \in Tasks |-> NoTask]
    /\ NewScheduler
    /\ AtRest

\* from the sync pass to the article: the periodic sync loop, the dispatcher, the
\* Scheduler's event loop and the Generator operations it calls
NextEvents ==
    \/ Start
    \/ WithinPasses /\ LoopTick
    \/ FetchFail("loop")
    \/ \E batch \in Batches(BusMarkets) : FetchOk("loop", batch)
    \/ ProcRead("loop")
    \/ ProcEmit("loop")
    \/ ProcCacheWrite("loop")
    \/ ProcUpsertOk("loop")
    \/ ProcUpsertFail("loop")
    \/ PassEnd("loop")
    \/ DispatchDequeue
    \/ DispatchSend
    \/ DispatchUnlock
    \/ SchedReceive
    \/ \E out \in EnrichOutcomes(genCfg) : GenEnrich("events", out)
    \/ \E reply \in LLMReplies : GenAsk("events", reply)
    \/ GenContent("events")
    \/ GenSave("events")
    \/ GenSaveFail("events")

SpecEvents == InitEvents /\ [][NextEvents]_vars

\* the periodic sync loop of a Syncer that is started, stopped and started again on
\* the same Store
NextRestart ==
    \/ WithinTime /\ Tick
    \/ Start
    \/ WithinPasses /\ LoopTick
    \/ LoopExit
    \/ FetchFail("loop")
    \/ \E batch \in Batches(SyncMarkets) : FetchOk("loop", batch)
    \/ ProcSkip("loop")
    \/ ProcRead("loop")
    \/ ProcEmit("loop")
    \/ ProcCacheWrite("loop")
    \/ ProcUpsertOk("loop")
    \/ ProcUpsertFail("loop")
    \/ PassEnd("loop")
    \/ DispatchExit
    \/ StopCancel
    \/ StopWait
    \/ StopCloseEvents
    \/ StopCloseSubs
    \/ SnapshotExit
    \/ CleanupExit
    \/ WithinPasses /\ Restart

SpecRestart == Init /\ [][NextRestart]_vars

\* ------------------------------------------------------------------ claims
\* a step in which emitEvent was called
EmitCalled == emitCount' = emitCount + 1

\* C1: emitEvent never blocks: on a full internal queue the event is discarded and
\* the queue is left unchanged, otherwise the event is appended; the queue never
\* holds more than its capacity.
C1_EmitAppendsOrDrops ==
    /\ [](Len(events) <= EventsCap)
    /\ [][EmitCalled =>
            IF Len(events) >= EventsCap
            THEN events' = events
            ELSE /\ Len(events') = Len(events) + 1
                 /\ SubSeq(events', 1, Len(events)) = events
                 /\ events'[Len(events')].seq = emitCount']_vars

\* the step of the delivery loop that offers dispEv to subscriber dispIdx
SendStep == dispPc = "deliver" /\ dispIdx' = dispIdx + 1

\* C2: every dequeued event is offered to every registered subscriber: a subscriber
\* with room receives it, a full subscriber loses it, and a full subscriber neither
\* blocks the dispatcher nor keeps the event from the other subscribers.
C2_DeliveryToEverySubscriber ==
    /\ []((dispPc = "deliver" /\ ~panicked) => ENABLED (DispatchSend \/ DispatchUnlock))
    /\ [][/\ (dispPc = "select" /\ dispPc' = "deliver") =>
                (dispEv' = Head(events) /\ dispIdx' = 1)
          /\ SendStep =>
                /\ dispIdx \in DOMAIN subscribers
                /\ dispEv' = dispEv
                /\ IF Len(subscribers[dispIdx].buf) < SubCap
                   THEN subscribers'[dispIdx].buf = Append(subscribers[dispIdx].buf, dispEv)
                   ELSE subscribers'[dispIdx].buf = subscribers[dispIdx].buf
                /\ \A j \in DOMAIN subscribers :
                      j # dispIdx => subscribers'[j] = subscribers[j]
          /\ dispPc = "deliver" => Len(subscribers') = Len(subscribers)
          /\ (dispPc = "deliver" /\ dispPc' = "deliver") =>
                dispIdx' \in {dispIdx, dispIdx + 1}
          /\ (dispPc = "deliver" /\ dispPc' # "deliver") => dispIdx = Len(subscribers) + 1
         ]_vars

\* C2 witness: the event was dropped for the full first subscriber and then delivered
\* to the second one
C2_Witness ==
    /\ dispPc = "deliver"
    /\ dispIdx = 3
    /\ Len(subscribers[1].buf) = SubCap
    /\ \A k \in 1..SubCap : subscribers[1].buf[k] # dispEv
    /\ subscribers[2].buf # <<>>
    /\ subscribers[2].buf[Len(subscribers[2].buf)] = dispEv

\* C3: Stop cancels the context first, goes on only when the four loops have exited,
\* and only then closes the queue and the subscriber channels; no subscriber channel
\* is closed while the dispatcher can still send.
C3_StopOrder ==
    /\ stopPc # "none" => cancelled
    /\ stopPc \in {"closeEvents", "closeSubs", "stopped"} => LoopsExited
    /\ eventsClosed => stopPc \in {"closeSubs", "stopped"}
    /\ \A i \in DOMAIN subscribers :
          subscribers[i].closed =>
             /\ stopPc = "stopped"
             /\ eventsClosed
             /\ dispPc = "exited"

C3_Witness ==
    /\ stopPc = "stopped"
    /\ \E i \in DOMAIN subscribers : subscribers[i].closed

\* no subscriber channel gains an event in this step
NothingForwarded ==
    \A i \in DOMAIN subscribers : Len(subscribers'[i].buf) <= Len(subscribers[i].buf)

\* C4 as stated: once Stop has cancelled the context no event is forwarded any more.
C4_NoForwardAfterCancel == [][cancelled => NothingForwarded]_vars

\* C4 as amended: once the dispatcher has exited no event is forwarded any more, and
\* what sits in the internal queue stays there.
C4_NoForwardAfterExit ==
    [][dispPc = "exited" =>
          /\ NothingForwarded
          /\ Len(events') >= Len(events)
          /\ SubSeq(events', 1, Len(events)) = events]_vars

C4_Witness ==
    /\ dispPc = "exited"
    /\ events # <<>>
    /\ subscribers # <<>>
    /\ stopPc = "stopped"

\* C5: what a subscriber receives is a subsequence of the emission order: on its
\* channel the emission indices increase strictly, and they lie above the index of
\* the event it took last.
C5_SubscriberOrder ==
    \A i \in DOMAIN subscribers :
       LET b == subscribers[i].buf
       IN /\ \A k \in 1..Len(b) : b[k].seq >= 1 /\ b[k].seq <= emitCount
          /\ \A k \in 1..(Len(b) - 1) : b[k].seq < b[k + 1].seq
          /\ b # <<>> => lastRecv[i] < b[1].seq

C5_Witness ==
    \E i \in DOMAIN subscribers :
       /\ lastRecv[i] > 0
       /\ Len(subscribers[i].buf) = 2


\* C6: the first_seen_at of a market, in the cache and in the Store, is set at the
\* first observation and never changed by a later pass.
C6_FirstSeenNeverChanges ==
    [][/\ \A m \in DOMAIN cache \cap DOMAIN cache' :
             cache'[m].first_seen_at = cache[m].first_seen_at
       /\ \A m \in DOMAIN store \cap DOMAIN store' :
             store'[m].first_seen_at = store[m].first_seen_at]_vars


\* every event of the current update has been offered to the queue
Detected(w) == pc[w] \in {"cachewrite", "upsert"}

\* the events of type t among evs
OfType(evs, t) == LET Test(e) == e.type = t IN SelectSeq(evs, Test)

\* the step in which worker w writes its market into the cache
CacheWritten(w) == pc[w] = "cachewrite" /\ pc'[w] = "upsert"

\* the step in which the UpsertMarket call of worker w returns
UpsertReturned(w) == pc[w] = "upsert" /\ pc'[w] # "upsert"

\* the first observation of a market emits one new_market event and nothing else,
\* and leaves the market in the cache with previous_prob = 0
C7_NewMarketEmitAndCache ==
    /\ [](\A w \in Workers :
            (Detected(w) /\ ~cur[w].exists) =>
               /\ Len(cur[w].emitted) = 1
               /\ cur[w].emitted[1].type = EventNewMarket
               /\ cur[w].emitted[1].market = cur[w].market)
    /\ [][\A w \in Workers :
            (CacheWritten(w) /\ ~cur[w].exists) =>
               /\ cur[w].market.market_id \in DOMAIN cache'
               /\ cache'[cur[w].market.market_id] = cur[w].market
               /\ cache'[cur[w].market.market_id].previous_prob = 0]_vars

\* C7 as stated: the first observation of a market emits exactly one new_market event
\* and no other; afterwards the cache holds the market with previous_prob = 0 and the
\* Store holds a row for it.
C7_NewMarketStored ==
    /\ C7_NewMarketEmitAndCache
    /\ [][\A w \in Workers :
            (UpsertReturned(w) /\ ~cur[w].exists) =>
               cur[w].market.market_id \in DOMAIN store']_vars

\* C7 as amended: ... and the Store holds the row when the upsert succeeded; a failed
\* upsert leaves the Store as it was.
C7_NewMarketStoredIfUpsertOk ==
    /\ C7_NewMarketEmitAndCache
    /\ [][\A w \in Workers :
            (UpsertReturned(w) /\ ~cur[w].exists) =>
               \/ /\ cur[w].market.market_id \in DOMAIN store'
                  /\ [store'[cur[w].market.market_id]
                        EXCEPT !.updated_at = cur[w].market.updated_at] = cur[w].market
               \/ store' = store]_vars

C7_Witness ==
    /\ pc["loop"] = "process"
    /\ Len(todo["loop"]) = 1
    /\ emitCount = 1
    /\ events # <<>>
    /\ events[1].type = EventNewMarket
    /\ "m1" \in DOMAIN cache
    /\ cache["m1"].previous_prob = 0
    /\ "m1" \in DOMAIN store

\* C8: an update of a cached market emits exactly one breaking_move event when
\* |new - cached probability| >= breaking_threshold, equality included, and none
\* otherwise; the event carries previous, current and change = current - previous.
C8_BreakingMove ==
    \A w \in Workers :
       (Detected(w) /\ cur[w].exists) =>
          LET prev == cur[w].existing.probability
              curr == cur[w].market.probability
              moves == OfType(cur[w].emitted, EventBreakingMove)
          IN IF abs(curr - prev) >= config.breakingThreshold
             THEN /\ Len(moves) = 1
                  /\ moves[1].meta = [change |-> curr - prev, previous |-> prev,
                                      current |-> curr]
             ELSE moves = <<>>

C8_Witness ==
    /\ Detected("loop")
    /\ cur["loop"].exists
    /\ abs(cur["loop"].market.probability - cur["loop"].existing.probability)
          = config.breakingThreshold
    /\ Len(OfType(cur["loop"].emitted, EventBreakingMove)) = 1

\* C9: an update from prev to curr emits one threshold_cross per threshold t of
\* {0.50, 0.75, 0.90} with prev < t <= curr (up) or curr < t <= prev (down), and no
\* other; prev = curr emits none.
C9_ThresholdCross ==
    \A w \in Workers :
       (Detected(w) /\ cur[w].exists) =>
          LET prev == cur[w].existing.probability
              curr == cur[w].market.probability
              crosses == OfType(cur[w].emitted, EventThresholdCross)
          IN /\ \A k \in 1..Len(crosses) : crosses[k].meta.threshold \in {50, 75, 90}
             /\ prev = curr => crosses = <<>>
             /\ \A t \in {50, 75, 90} :
                   LET up == prev < t /\ t <= curr
                       down == curr < t /\ t <= prev
                       AtT(e) == e.meta.threshold = t
                       at == SelectSeq(crosses, AtT)
                   IN IF up \/ down
                      THEN /\ Len(at) = 1
                           /\ at[1].meta.direction = (IF up THEN "up" ELSE "down")
                      ELSE at = <<>>

C9_Witness ==
    /\ Detected("loop")
    /\ cur["loop"].exists
    /\ cur["loop"].existing.probability = 48
    /\ cur["loop"].market.probability = 52
    /\ Len(OfType(cur["loop"].emitted, EventThresholdCross)) = 1
    /\ OfType(cur["loop"].emitted, EventThresholdCross)[1].meta =
          [threshold |-> 50, direction |-> "up"]

\* C10: an update of a cached market emits a volume_spike event exactly when the
\* cached volume_24h is positive and new / cached volume_24h >= volume_multiplier;
\* with a cached volume_24h of 0 none is emitted and nothing is divided by it.
C10_VolumeSpike ==
    \A w \in Workers :
       (Detected(w) /\ cur[w].exists) =>
          LET old == cur[w].existing.volume_24h
              new == cur[w].market.volume_24h
              spikes == OfType(cur[w].emitted, EventVolumeSpike)
          IN /\ IF old > 0 /\ new >= config.volumeMultiplier * old
                THEN Len(spikes) = 1
                ELSE spikes = <<>>
             /\ 0 \notin cur[w].divisors

C10_Witness ==
    /\ Detected("loop")
    /\ cur["loop"].exists
    /\ cur["loop"].existing.volume_24h = 0
    /\ cur["loop"].market.volume_24h > 0
    /\ OfType(cur["loop"].emitted, EventVolumeSpike) = <<>>

\* the positions in evs of the events of type t
Positions(evs, t) == {k \in 1..Len(evs) : evs[k].type = t}

\* C11: when one update of a cached market qualifies for a volume spike and for a
\* breaking move, the volume_spike event is emitted before the breaking_move event.
C11_SpikeBeforeBreaking ==
    \A w \in Workers :
       (Detected(w) /\ cur[w].exists) =>
          \A i \in Positions(cur[w].emitted, EventVolumeSpike),
             j \in Positions(cur[w].emitted, EventBreakingMove) :
                /\ i < j
                /\ cur[w].emitted[i].seq < cur[w].emitted[j].seq

\* C12: for every event emitted, the market embedded in the event equals the cache
\* entry of its market_id in the state right after the emission.
C12_EventMarketEqualsCache ==
    [][\A w \in Workers :
          (EmitCalled /\ pc[w] = "emit" /\ ~panicked') =>
             LET e == Head(cur[w].pending)
             IN /\ e.market.market_id \in DOMAIN cache'
                /\ cache'[e.market.market_id] = e.market]_vars

\* the step in which worker w takes a market below the volume filter off its pass
SkipStep(w) ==
    /\ pc[w] = "process"
    /\ todo[w] # <<>>
    /\ Head(todo[w]).volume24hr < config.minVolume24h
    /\ todo'[w] = Tail(todo[w])

\* C13: processing an upstream market whose volume_24h is below min_volume_24h emits
\* no event, leaves the cache unchanged and writes nothing to the Store, whether or
\* not the market is cached; no such market is ever taken past the filter.
C13_BelowMinVolumeSkipped ==
    /\ [](\A w \in Workers :
             cur[w].busy => Head(todo[w]).volume24hr >= config.minVolume24h)
    /\ [][\A w \in Workers :
             SkipStep(w) =>
                /\ cache' = cache
                /\ store' = store
                /\ events' = events
                /\ emitCount' = emitCount
                /\ cur' = cur]_vars

\* C13 witness: a market that is cached was skipped: the pass is over, nothing was
\* emitted after the new_market event and the cache still holds the first observation
C13_Witness ==
    /\ pc["loop"] = "process"
    /\ todo["loop"] = <<>>
    /\ config.minVolume24h = MinVolume24h
    /\ emitCount = 1
    /\ "m1" \in DOMAIN cache
    /\ cache["m1"].probability = 42
    /\ cache["m1"].previous_prob = 0
    /\ cache["m1"].volume_24h = 20000

\* C14: the previous_prob written by an update is the probability carried by the
\* update processed immediately before it (the one the cache holds at the write).
C14_PreviousProbIsPrecedingUpdate ==
    [][\A w \in Workers :
          (CacheWritten(w) /\ cur[w].market.market_id \in DOMAIN cache) =>
             cache'[cur[w].market.market_id].previous_prob =
                cache[cur[w].market.market_id].probability]_vars

\* the step in which a stopped process is replaced by a new one
RestartStep == stopPc = "stopped" /\ stopPc' = "none"

\* C15: when the process stops after any sequence of sync passes and a new Syncer is
\* started on the same Store, the cache built at start from the Store's active
\* markets is the cache the old process held: the same market_ids with the same
\* field values.
C15_RestartReproducesCache ==
    [][(RestartStep /\ cache' = store') => cache' = cache]_vars

\* the step in which the caller's UpsertMarket call runs
UpsertCalled == cur'["loop"].calls = cur["loop"].calls + 1

\* a second call with the same market leaves its row with the first_seen_at of the
\* first call and an updated_at that is not earlier
UpsertTwiceKeepsFirstSeen ==
    [][(UpsertCalled /\ cur["loop"].calls >= 1) =>
          LET id == cur["loop"].market.market_id
          IN /\ id \in DOMAIN store /\ id \in DOMAIN store'
             /\ store'[id].first_seen_at = store[id].first_seen_at
             /\ store'[id].updated_at >= store[id].updated_at]_vars

\* C16: calling UpsertMarket twice with the same market leaves one record of its
\* market_id, with first_seen_at as after the first call and updated_at not earlier;
\* UpsertMarket sets first_seen_at only when the current record has none.
C16_UpsertKeepsFirstSeen ==
    /\ UpsertTwiceKeepsFirstSeen
    /\ [][UpsertCalled =>
            LET id == cur["loop"].market.market_id
            IN /\ id \in DOMAIN store'
               /\ (id \in DOMAIN store /\ store[id].first_seen_at # 0) =>
                     store'[id].first_seen_at = store[id].first_seen_at]_vars

\* the step in which the SaveArticle call of task t returns
SaveReturned(t) == task[t].pc = "save" /\ task'[t].pc = "idle"

\* the step in which task t turns the model's reply into content
ContentBuilt(t) == task[t].pc = "parse" /\ task'[t].pc # "parse"

C18_MalformedReplyNoArticle ==
    /\ [][(/\ ContentBuilt("events")
           /\ task["events"].op = "breaking"
           /\ task["events"].reply = "malformed")
             => /\ task'["events"].pc = "idle"
                /\ task'["events"].ret = "err_parse"
                /\ articles' = articles
                /\ UNCHANGED <<cache, store, pc, todo, cur, events, subscribers>>]_vars
    /\ []((task["events"].pc = "idle" /\ subscribers[1].buf # <<>> /\ ~panicked)
             => ENABLED SchedReceive)
    /\ []((pc["loop"] = "select" /\ ~panicked) => ENABLED LoopTick)

\* C18 witness: the breaking_move event failed on a malformed reply, and the event
\* loop has taken the event that followed it
C18_Witness ==
    /\ task["events"].ret = "err_parse"
    /\ task["events"].pc = "idle"
    /\ task["events"].runs = 3
    /\ lastRecv[1] = 3
    /\ \A k \in 1..Len(articles) : articles[k].type # "breaking"

\* C19: with no LLM client configured, GenerateBreaking always fails and persists
\* nothing, while GenerateBriefing, given at least one market, builds its article
\* from the templated fallback copy and persists it when the Store takes the save.
C19_NoClientBreakingFailsBriefingFallsBack ==
    /\ [](~genCfg.llm =>
             \A k \in 1..Len(articles) :
                /\ articles[k].type # "breaking"
                /\ articles[k].copy = "fallback")
    /\ [][\A t \in Tasks :
             (~genCfg.llm /\ ContentBuilt(t)) =>
                IF task[t].op = "breaking"
                THEN /\ task'[t].pc = "idle"
                     /\ task'[t].ret \notin {"ok", "none"}
                     /\ articles' = articles
                ELSE /\ task'[t].pc = "save"
                     /\ task'[t].article.copy = "fallback"]_vars
    /\ [][\A t \in Tasks :
             (/\ ~genCfg.llm
              /\ SaveReturned(t)
              /\ task[t].article.type = "briefing"
              /\ task'[t].ret # "err_store"
              /\ \A k \in 1..Len(articles) : articles[k].slug # task[t].article.slug)
                => /\ articles' = Append(articles, task[t].article)
                   /\ task'[t].ret = "ok"]_vars

\* C19 witness: without a client the breaking article failed and a briefing with the
\* fallback copy is in the Store
C19_Witness ==
    /\ ~genCfg.llm
    /\ task["events"].ret = "err_no_llm"
    /\ \E k \in 1..Len(articles) :
          articles[k].type = "briefing" /\ articles[k].copy = "fallback"

\* C20: Enrich never returns an error; its sources list names exactly the enabled
\* providers whose call succeeded (only "tavily" when the news-search key alone is
\* set), and a failed or disabled provider contributes no entries.
C20_EnrichSources ==
    \A t \in Tasks :
       (task[t].pc \in {"llm", "parse"} /\ task[t].op # "briefing") =>
          LET r == task[t].enriched
              out == r.asked
              tavilyOk == genCfg.tavily /\ out.tavily # "fail"
              exaOk == genCfg.exa /\ out.exa = "ok"
              scrapeOk == genCfg.firecrawl /\ tavilyOk /\ out.tavily = "one"
                             /\ out.scrape = "ok"
              named == {r.sources[k] : k \in 1..Len(r.sources)}
          IN /\ r.err = FALSE
             /\ Len(r.sources) = Cardinality(named)
             /\ named = {p \in {"tavily", "exa", "firecrawl"} :
                            \/ p = "tavily" /\ tavilyOk
                            \/ p = "exa" /\ exaOk
                            \/ p = "firecrawl" /\ scrapeOk}
             /\ (genCfg.tavily /\ ~genCfg.exa /\ ~genCfg.firecrawl /\ tavilyOk)
                   => r.sources = <<"tavily">>
             /\ ~tavilyOk => r.news = 0
             /\ ~exaOk => r.semantic = 0
             /\ ~scrapeOk => r.deep = 0

\* -------------------------------------------------- reactions to bus events
Range(q) == {q[i] : i \in 1..Len(q)}

\* upstream markets behind the events the Scheduler reacts to
ReactMarkets == Upstream({"m1"}, {42, 50, 75, 90}, {20000, 49999, 50000, 60000}, {0})

\* every event a sync pass can emit for these markets: the listing of each, and what
\* DetectEvents finds between any two of them
ReactEvents ==
    LET listed(pm) == DiffMarket(convertMarketWithEvent(pm, 1), FALSE, NoMarket, 1)
        moved(a, b) == DiffMarket(convertMarketWithEvent(b, 1), TRUE, listed(a), 1)
    IN {NewMarketEvent(listed(pm)) : pm \in ReactMarkets}
       \cup UNION {Range(DetectEvents(DefaultSyncerConfig, moved(a, b), TRUE, listed(a))) :
                      a \in ReactMarkets, b \in ReactMarkets}

\* a running engine whose Scheduler has one event waiting in its subscription
InitReact ==
    /\ config = DefaultSyncerConfig
    /\ cache = EmptyMap
    /\ store = EmptyMap
    /\ events = <<>>
    /\ eventsClosed = FALSE
    /\ subscribers \in {<<[buf |-> <<Stamp(e, 1)>>, closed |-> FALSE]>> : e \in ReactEvents}
    /\ lastRecv = <<0>>
    /\ cancelled = FALSE
    /\ started = TRUE
    /\ stopPc = "none"
    /\ snapPc = "run"
    /\ cleanPc = "run"
    /\ dispPc = "select"
    /\ dispEv = NoEvent
    /\ dispIdx = 0
    /\ pc = [w \in Workers |-> IF w = "loop" THEN "select" ELSE "idle"]
    /\ todo = [w \in Workers |-> <<>>]
    /\ cur = [w \in Workers |-> NoLocal]
    /\ emitCount = 1
    /\ passCount = 2
    /\ panicked = FALSE
    /\ now = 1
    /\ articles = <<>>
    /\ genCfg = [llm |-> TRUE, tavily |-> TRUE, exa |-> FALSE, firecrawl |-> FALSE]
    /\ task = [t \in Tasks |-> NoTask]
    /\ NewScheduler
    /\ AtRest

\* the event loop and the Generator operation processEvent calls
NextReact ==
    \/ SchedReceive
    \/ \E out \in EnrichOutcomes(genCfg) : GenEnrich("events", out)
    \/ \E reply \in LLMReplies : GenAsk("events", reply)
    \/ GenContent("events")
    \/ GenSave("events")
    \/ GenSaveFail("events")

SpecReact == InitReact /\ [][NextReact]_vars

\* the Generator operation the event loop has just entered, if any
Invoked == IF task'["events"].pc = "enrich" THEN task'["events"].op ELSE "none"

\* C21: the Scheduler calls GenerateBreaking for every breaking_move event it takes,
\* GenerateNewMarket for a new_market event only when volume_24h >= 50 000,
\* GenerateBreaking for a threshold_cross event only when the threshold is >= 0.75 or
\* <= 0.25, and no Generator operation for volume_spike or any other type.
C21_Reactions ==
    [][lastRecv' # lastRecv =>
         LET e == Head(subscribers[1].buf)
         IN /\ e.type = EventBreakingMove => Invoked = "breaking"
            /\ e.type = EventNewMarket =>
                  Invoked = (IF e.market.volume_24h >= 50000 THEN "new_market" ELSE "none")
            /\ e.type = EventThresholdCross =>
                  Invoked = (IF e.meta.threshold >= 75 \/ e.meta.threshold <= 25
                             THEN "breaking" ELSE "none")
            /\ e.type \notin {EventBreakingMove, EventNewMarket, EventThresholdCross}
                  => Invoked = "none"
            /\ Invoked # "none" => task'["events"].arg = e
            /\ Invoked = "none" => task'["events"].pc = "idle"]_vars

\* C21 witness: GenerateBreaking has been entered for a crossing of 0.75
C21_Witness ==
    /\ task["events"].pc = "enrich"
    /\ task["events"].op = "breaking"
    /\ task["events"].arg.type = EventThresholdCross
    /\ task["events"].arg.meta.threshold = 75

\* ------------------------------------------------ conversion in a sync pass
\* the periodic sync loop fed by Client.GetEvents
NextConvert ==
    \/ Start
    \/ WithinPasses /\ LoopTick
    \/ FetchFail("loop")
    \/ \E batch \in Batches(EventMarkets) : FetchOk("loop", batch)
    \/ ProcSkip("loop")
    \/ ProcRead("loop")
    \/ ProcEmit("loop")
    \/ ProcCacheWrite("loop")
    \/ ProcUpsertOk("loop")
    \/ ProcUpsertFail("loop")
    \/ PassEnd("loop")

SpecConvert == Init /\ [][NextConvert]_vars

\* the markets the Syncer has written: cache entries and Store rows
Written == {cache[id] : id \in DOMAIN cache} \cup {store[id] : id \in DOMAIN store}

\* the markets embedded in the events on the bus and in the event being emitted
Embedded ==
    {events[i].market : i \in 1..Len(events)}
    \cup UNION {{cur[w].emitted[i].market : i \in 1..Len(cur[w].emitted)} :
                   w \in {x \in Workers : cur[x].busy}}

\* C22: every market the Syncer writes has outcome_prices as long as outcomes and
\* outcome_prices[0] equal to probability, also when a price string that does not
\* parse was dropped.
C22_OutcomePricesParallel ==
    \A m \in Written :
       /\ Len(m.outcome_prices) = Len(m.outcomes)
       /\ m.outcome_prices[1] = m.probability

\* C23: every market a sync pass derives from an event has polymarket_url =
\* "https://polymarket.com/event/" + the parent event's slug, never the market's own
\* slug, in the cache, in the Store and in every emitted event.
C23_EventSlugInURL ==
    \A m \in Written \cup Embedded :
       /\ m.polymarket_url = EventURL(EventSlug(m.market_id))
       /\ m.polymarket_url # EventURL(MarketSlug(m.market_id))

\* C23 witness: the market is in the cache and in the Store, and its new_market
\* event is on the bus
C23_Witness ==
    /\ "m1" \in DOMAIN cache
    /\ "m1" \in DOMAIN store
    /\ Len(events) >= 1
    /\ events[1].market.polymarket_url = EventURL(EventSlug("m1"))

\* ------------------------------------------------------ functions of a market
\* strings.ToLower on the characters and words the inputs use
ToLower(c) == IF c = "A" THEN "a" ELSE IF c = "Trump" THEN "trump" ELSE c

\* the strings.NewReplacer of GenerateSlug: what a character is replaced by
Replacer(c) ==
    IF c \in {"'", "\"", "?", "!", ",", ".", ":", ";", "(", ")", "[", "]"} THEN <<>>
    ELSE IF c = "&" THEN <<"a", "n", "d">>
    ELSE IF c = "%" THEN <<"p", "e", "r", "c", "e", "n", "t">>
    ELSE IF c = "$" THEN <<"u", "s", "d">>
    ELSE IF c = "@" THEN <<"a", "t">>
    ELSE <<c>>

\* lower case, spaces to hyphens, then the replacer, character by character
RECURSIVE Sanitized(_)
Sanitized(q) ==
    IF q = <<>> THEN <<>>
    ELSE LET c == ToLower(Head(q))
         IN (IF c = " " THEN <<"-">> ELSE Replacer(c)) \o Sanitized(Tail(q))

\* strings.TrimRight(slug, "-")
RECURSIVE TrimRight(_)
TrimRight(q) ==
    IF q # <<>> /\ q[Len(q)] = "-" THEN TrimRight(SubSeq(q, 1, Len(q) - 1)) ELSE q

\* Market.GenerateSlug
GenerateSlug(question) ==
    LET slug == Sanitized(question)
    IN TrimRight(IF Len(slug) > MaxSlugLen THEN SubSeq(slug, 1, MaxSlugLen) ELSE slug)

\* CategoryKeywords, three of its entries in declaration order, with the keywords
\* the inputs use
DeclaredCategories == <<"politics", "elections", "crypto">>
CategoryKeywords ==
    [c \in Range(DeclaredCategories) |->
        IF c = "politics" THEN {"trump", "vote"}
        ELSE IF c = "elections" THEN {"election", "ballot"}
        ELSE {"bitcoin"}]

\* the orders in which a range over the map CategoryKeywords can visit its keys
IterationOrders ==
    {o \in SeqsUpTo(Range(DeclaredCategories), Len(DeclaredCategories)) :
        Len(o) = Len(DeclaredCategories) /\ Range(o) = Range(DeclaredCategories)}

\* strings.Contains(questionLower, keyword), on a question given as its words
Contains(question, keyword) ==
    \E i \in 1..Len(question) : ToLower(question[i]) = keyword

\* Market.DetectCategory when the range visits the categories in this order
RECURSIVE DetectCategory(_, _)
DetectCategory(question, order) ==
    IF order = <<>> THEN "other"
    ELSE IF \E k \in CategoryKeywords[Head(order)] : Contains(question, k)
         THEN Head(order)
         ELSE DetectCategory(question, Tail(order))

\* the calls examined: their arguments
ScoreCalls ==
    [fn : {"CalculateTrendingScore"},
     m : [volume_24h : {0, 50000, 100000, 1000000}, volume_1h : {0, 10000},
          probability : {0, 50, 90},
          change_24h : {-15, -10, -5, -2, -1, 0, 1, 2, 5, 10, 15, 20}]]

SlugCalls ==
    [fn : {"GenerateSlug"},
     question : SeqsUpTo({"A", "b", " ", "-", "%", "#", "+", "["}, MaxQuestion)]

CategoryCalls ==
    [fn : {"DetectCategory"},
     question : SeqsUpTo({"Trump", "election", "bitcoin", "rain"}, MaxWords)]

NextRunCalls ==
    [fn : {"calculateNextRun"},
     schedule : {DailySchedule(at) : at \in 0..(MinutesPerDay - 1)}
                \cup {WeeklySchedule(at, days) :
                         at \in 0..(MinutesPerDay - 1),
                         days \in {{1}, {6}, {0, 3}, {2, 4, 5}, 0..6}}
                \cup {IntervalSchedule(d) : d \in {1, 3}},
     t : 0..MaxClock]

\* a call is about to be made
InitCalls ==
    /\ NewSyncer
    /\ articles = <<>>
    /\ genCfg = [llm |-> TRUE, tavily |-> TRUE, exa |-> TRUE, firecrawl |-> TRUE]
    /\ task = [t \in Tasks |-> NoTask]
    /\ NewScheduler
    /\ cacheMux = {}
    /\ snap = NoSnap
    /\ corr = NoCorr
    /\ admin = NoAdmin
    /\ genCalls = NoCalls
    /\ config = DefaultSyncerConfig
    /\ store = EmptyMap
    /\ now = 1
    /\ call \in ScoreCalls \cup SlugCalls \cup CategoryCalls \cup NextRunCalls

\* the call returns; a range over CategoryKeywords visits the keys in some order
CallReturn(order) ==
    /\ call.fn \notin {"none", "returned"}
    /\ call' = [fn |-> "returned", of |-> call,
                out |-> CASE call.fn = "CalculateTrendingScore" ->
                                CalculateTrendingScore(call.m)
                          [] call.fn = "GenerateSlug" -> GenerateSlug(call.question)
                          [] call.fn = "DetectCategory" ->
                                DetectCategory(call.question, order)
                          [] call.fn = "calculateNextRun" ->
                                calculateNextRun(call.schedule, call.t)]
    /\ UNCHANGED <<contentVars, config, cache, store, busVars, lifeVars, syncVars,
                   emitCount, now, panicked, sched, cacheMux, snap, corr, admin, genCalls>>

NextCalls == \E order \in IterationOrders : CallReturn(order)

SpecCalls == InitCalls /\ [][NextCalls]_vars

\* the call of fn has returned
Returned(fn) == call.fn = "returned" /\ call.of.fn = fn

\* C24: with volume_24h, volume_1h and probability fixed, CalculateTrendingScore is
\* monotone non-decreasing in |change_24h|.
C24_ScoreMonotoneInChange ==
    Returned("CalculateTrendingScore") =>
       \A c \in -25..25 :
          abs(c) >= abs(call.of.m.change_24h) =>
             CalculateTrendingScore([call.of.m EXCEPT !.change_24h = c]) >= call.out

\* C24 witness: a score for a 10-point drop has been computed; the score of a
\* 15-point rise is higher
C24_Witness ==
    /\ Returned("CalculateTrendingScore")
    /\ call.of.m.change_24h = -10
    /\ call.of.m.volume_24h = 100000
    /\ call.out < CalculateTrendingScore([call.of.m EXCEPT !.change_24h = 15])

\* C25: the slug GenerateSlug makes of any question has at most 80 characters, no
\* trailing '-', no two consecutive '-', and none of the characters % $ @ # + [ ].
C25_SlugClean ==
    Returned("GenerateSlug") =>
       /\ Len(call.out) <= 80
       /\ call.out # <<>> => call.out[Len(call.out)] # "-"
       /\ \A i \in 1..(Len(call.out) - 1) : ~(call.out[i] = "-" /\ call.out[i + 1] = "-")
       /\ \A i \in 1..Len(call.out) : call.out[i] \notin {"%", "$", "@", "#", "+", "[", "]"}

\* C26: DetectCategory always returns, for a question with keywords of several
\* categories, the category that comes first in declaration order, and "other" for
\* a question that matches no keyword.
C26_CategoryByDeclarationOrder ==
    Returned("DetectCategory") =>
       call.out = DetectCategory(call.of.question, DeclaredCategories)

\* the instants at which a schedule asks for a run: hh:mm, on a listed weekday
Occurs(schedule, u) ==
    /\ u % MinutesPerDay = schedule.at
    /\ schedule.type = "weekly" => Weekday(u) \in schedule.days

\* C28: for a daily schedule calculateNextRun returns the earliest instant strictly
\* after now whose time of day is hh:mm; for a weekly schedule with non-empty days,
\* the earliest instant strictly after now on a listed weekday at hh:mm.
C28_NextRunIsNextOccurrence ==
    (Returned("calculateNextRun") /\ call.of.schedule.type \in {"daily", "weekly"}) =>
       /\ call.out > call.of.t
       /\ Occurs(call.of.schedule, call.out)
       /\ \A u \in (call.of.t + 1)..(call.out - 1) : ~Occurs(call.of.schedule, u)

\* C28 witness: a weekly run on today's weekday only, asked for when today's hh:mm
\* is not ahead, falls a week later
C28_Witness ==
    /\ Returned("calculateNextRun")
    /\ call.of.schedule.type = "weekly"
    /\ call.of.schedule.days = {Weekday(call.of.t)}
    /\ call.of.t % MinutesPerDay >= call.of.schedule.at
    /\ call.out = Date(call.of.t) * MinutesPerDay + call.of.schedule.at + 7 * MinutesPerDay

\* ------------------------------------------------------------- the job loop
\* jobLoop: the one-minute ticker fires and checkAndRunJobs is called
JobWake ==
    /\ sched.pc = "wait"
    /\ sched' = [sched EXCEPT !.pc = "check"]
    /\ UNCHANGED <<contentVars, config, cache, store, busVars, lifeVars, syncVars,
                   emitCount, now, panicked, cacheMux, snap, call, corr, admin, genCalls>>

\* a due job is handed to its own goroutine and leaves with a new NextRun, which
\* calculateNextRun computes from a clock it reads itself, lag minutes later
Dispatched(job, t, lag) ==
    IF t >= job.next_run
    THEN [job EXCEPT !.runs = @ + 1, !.last_run = t,
                     !.next_run = calculateNextRun(job.schedule, t + lag)]
    ELSE job

\* mutant: a due job is dispatched and keeps its NextRun
JobCheckNoReschedule(lag) ==
    /\ sched.pc = "check"
    /\ now + lag <= MaxClock
    /\ sched' = [jobs |-> [i \in DOMAIN sched.jobs |->
                             IF now >= sched.jobs[i].next_run
                             THEN [sched.jobs[i] EXCEPT !.runs = @ + 1, !.last_run = now]
                             ELSE sched.jobs[i]],
                 pc |-> "wait"]
    /\ now' = now + lag
    /\ UNCHANGED <<contentVars, config, cache, store, busVars, lifeVars, syncVars,
                   emitCount, panicked, cacheMux, snap, call, corr, admin, genCalls>>

\* Scheduler.checkAndRunJobs: the whole table is gone through under jobsMux.Lock
JobCheck(lag) ==
    /\ sched.pc = "check"
    /\ now + lag <= MaxClock
    /\ sched' = [jobs |-> [i \in DOMAIN sched.jobs |-> Dispatched(sched.jobs[i], now, lag)],
                 pc |-> "wait"]
    /\ now' = now + lag
    /\ UNCHANGED <<contentVars, config, cache, store, busVars, lifeVars, syncVars,
                   emitCount, panicked, cacheMux, snap, call, corr, admin, genCalls>>

\* the schedules of the jobs registered: intervals, daily and weekly runs
JobSchedules ==
    {IntervalSchedule(1), IntervalSchedule(3), DailySchedule(0),
     DailySchedule(MinutesPerDay - 1), WeeklySchedule(0, {1}), WeeklySchedule(1, {0, 3})}

\* a Scheduler built at instant 0 or 1 with two jobs
InitJobs ==
    /\ NewSyncer
    /\ articles = <<>>
    /\ genCfg = [llm |-> TRUE, tavily |-> TRUE, exa |-> TRUE, firecrawl |-> TRUE]
    /\ task = [t \in Tasks |-> NoTask]
    /\ AtRest
    /\ config = DefaultSyncerConfig
    /\ store = EmptyMap
    /\ now \in {0, 1}
    /\ sched \in {[jobs |-> AddJob(AddJob(<<>>, "first", a, now), "second", b, now),
                   pc |-> "wait"] : a \in JobSchedules, b \in JobSchedules}

WithinClock == now < MaxClock

NextJobs ==
    \/ WithinClock /\ Tick
    \/ JobWake
    \/ \E lag \in {0, 1} : JobCheck(lag)

SpecJobs == InitJobs /\ [][NextJobs]_vars

\* the step in which a call of checkAndRunJobs is made
JobsChecked == sched.pc = "check" /\ sched'.pc = "wait"

\* C27: on each tick of the job loop every job with next_run <= now is dispatched
\* exactly once and gets a next_run computed from the current time, so that
\* afterwards next_run > now; jobs with next_run > now are neither dispatched nor
\* modified.
C27_DueJobsDispatchedOnce ==
    [][JobsChecked =>
         /\ DOMAIN sched'.jobs = DOMAIN sched.jobs
         /\ \A i \in DOMAIN sched.jobs :
               LET job == sched.jobs[i]
                   after == sched'.jobs[i]
               IN IF job.next_run <= now
                  THEN /\ after.runs = job.runs + 1
                       /\ after.next_run > now'
                       /\ after.name = job.name
                       /\ after.schedule = job.schedule
                  ELSE after = job]_vars

\* C27 witness: the first job has been dispatched twice and waits for its next run,
\* and the second job has not been due yet
C27_Witness ==
    /\ sched.pc = "wait"
    /\ sched.jobs[1].runs = 2
    /\ sched.jobs[1].next_run > now
    /\ sched.jobs[2].runs = 0
    /\ sched.jobs[2].schedule.type = "weekly"

\* ------------------------------------------------------- the snapshot pass
\* snapshotLoop: the ticker fires; takeSnapshots takes cacheMux.RLock, released by
\* its deferred RUnlock, and ranges over the cache
SnapLock(order) ==
    /\ ~panicked
    /\ snapPc = "run"
    /\ snap.pc = "wait"
    /\ Range(order) = DOMAIN cache
    /\ Len(order) = Cardinality(DOMAIN cache)
    /\ cacheMux' = cacheMux \cup {"snapshot"}
    /\ snap' = [snap EXCEPT !.pc = "save", !.todo = order]
    /\ UNCHANGED <<contentVars, config, cache, store, busVars, lifeVars, syncVars,
                   emitCount, now, panicked, sched, call, corr, admin, genCalls>>

\* takeSnapshots: Store.SaveSnapshot for the next cached market returns; an error is
\* logged and the range goes on
SnapSave(ok) ==
    /\ ~panicked
    /\ snap.pc = "save"
    /\ snap.todo # <<>>
    /\ ok => ~cancelled
    /\ snap' = [snap EXCEPT !.todo = Tail(@), !.saved = IF ok THEN @ + 1 ELSE @]
    /\ UNCHANGED <<contentVars, config, cache, store, busVars, lifeVars, syncVars,
                   emitCount, now, panicked, sched, cacheMux, call, corr, admin, genCalls>>

\* takeSnapshots returns: the deferred RUnlock runs
SnapUnlock ==
    /\ ~panicked
    /\ snap.pc = "save"
    /\ snap.todo = <<>>
    /\ cacheMux' = cacheMux \ {"snapshot"}
    /\ snap' = [snap EXCEPT !.pc = "wait"]
    /\ UNCHANGED <<contentVars, config, cache, store, busVars, lifeVars, syncVars,
                   emitCount, now, panicked, sched, call, corr, admin, genCalls>>

WithinSnaps == snap.saved < MaxSnaps

\* the sync loop and the snapshot loop of a started Syncer
NextSnap ==
    \/ Start
    \/ WithinPasses /\ LoopTick
    \/ FetchFail("loop")
    \/ \E batch \in Batches(BusMarkets) : FetchOk("loop", batch)
    \/ ProcRead("loop")
    \/ ProcEmit("loop")
    \/ ProcCacheWrite("loop")
    \/ ProcUpsertOk("loop")
    \/ ProcUpsertFail("loop")
    \/ PassEnd("loop")
    \/ \E order \in SeqsUpTo(DOMAIN cache, 1) : WithinSnaps /\ SnapLock(order)
    \/ \E ok \in BOOLEAN : SnapSave(ok)
    \/ SnapUnlock

SpecSnap == Init /\ [][NextSnap]_vars

\* C29: no Syncer task holds the market-cache lock while it makes a Store or remote
\* call; the snapshot pass does not hold it while writing snapshot rows, so the cache
\* write of a sync pass never waits behind database I/O.
C29_NoLockAcrossIO ==
    /\ (snap.pc = "save" /\ snap.todo # <<>>) => "snapshot" \notin cacheMux
    /\ \A w \in Workers : pc[w] \in {"fetch", "upsert"} => w \notin cacheMux
    /\ \A w \in Workers :
          (pc[w] = "cachewrite" /\ ~panicked /\ snap.todo # <<>>)
             => ENABLED ProcCacheWrite(w)

\* C30: while the article for one event is being generated, the Scheduler's event
\* loop keeps taking later events from its subscription.
C30_EventLoopNotBlockedByGeneration ==
    (task["events"].pc # "idle" /\ subscribers # <<>> /\ ~panicked)
       => (subscribers[1].buf # <<>> => ENABLED SchedReceive)

\* --------------------------------------------------------- failures of a pass
\* the step in which the pass of worker w ends at its fetch
FetchFailed(w) == pc[w] = "fetch" /\ pc'[w] \notin {"fetch", "process"}

\* C31: when the events fetch fails the pass ends without emitting an event, without
\* changing the cache and without a Store write; the sync loop keeps running and its
\* next tick makes a fresh fetch.
C31_FetchFailureEndsPass ==
    /\ [][\A w \in Workers :
             FetchFailed(w) =>
                /\ pc'[w] = AfterPass(w)
                /\ UNCHANGED <<cache, store, events, subscribers, emitCount, todo, cur>>]_vars
    /\ []((pc["loop"] = "select" /\ ~panicked) => ENABLED LoopTick)
    /\ [][(pc["loop"] = "select" /\ pc'["loop"] # "select" /\ ~cancelled)
             => pc'["loop"] = "fetch"]_vars

\* C31 witness: nothing was cached, stored or emitted by the first pass, whose fetch
\* failed, and the loop is at the fetch of its second pass
C31_Witness ==
    /\ passCount = 2
    /\ pc["loop"] = "fetch"
    /\ cache = EmptyMap
    /\ store = EmptyMap
    /\ emitCount = 0

ChangeMarkets == Upstream({"m1"}, {42, 50}, {5000, 60000}, {0, 3})

\* a running Syncer whose fetch returned two observations of one market
InitChange ==
    /\ config \in [minVolume24h : {MinVolume24h},
                   breakingThreshold : {BreakingThreshold},
                   volumeMultiplier : {VolumeMultiplier}]
    /\ cache = EmptyMap
    /\ store = EmptyMap
    /\ events = <<>>
    /\ eventsClosed = FALSE
    /\ subscribers = <<>>
    /\ lastRecv = <<>>
    /\ cancelled = FALSE
    /\ started = TRUE
    /\ stopPc = "none"
    /\ snapPc = "run"
    /\ cleanPc = "run"
    /\ dispPc = "select"
    /\ dispEv = NoEvent
    /\ dispIdx = 0
    /\ pc = [w \in Workers |-> IF w = "loop" THEN "process" ELSE "idle"]
    /\ todo \in {[w \in Workers |-> IF w = "loop" THEN <<a, b>> ELSE <<>>] :
                    a \in ChangeMarkets, b \in ChangeMarkets}
    /\ cur = [w \in Workers |-> NoLocal]
    /\ emitCount = 0
    /\ passCount = 1
    /\ panicked = FALSE
    /\ now = 1
    /\ NewGenerator

SpecChange == InitChange /\ [][NextDetect]_vars

\* C33: the change_24h written to the Store is the upstream's one-day price change
\* whenever the upstream reports one; the difference probability - previous_prob is
\* stored only for a market the upstream reports no change for.
C33_Change24hUpstreamFirst ==
    [][\A w \in Workers :
          (UpsertReturned(w) /\ store' # store) =>
             LET pm == Head(todo[w])
                 row == store'[pm.id]
             IN pm.oneDayPriceChange # 0 => row.change_24h = pm.oneDayPriceChange]_vars

\* ------------------------------------------------- Correlator.GetTrackedUsers
\* the lists Client.GetUsers can return
UserLists == {<<>>, <<"u1">>, <<"u1", "u2">>}

\* the elements of every UNCHANGED of the Correlator's steps
corrFrame == <<contentVars, config, cache, store, busVars, lifeVars, syncVars, emitCount,
               panicked, sched, cacheMux, snap, call, admin, genCalls>>

\* the condition of GetTrackedUsers: time.Since(c.usersAt) < c.cacheTTL && len(c.users) > 0
Fresh(c, t) == t - c.usersAt < CacheTTL /\ Len(c.users) > 0

\* GetTrackedUsers is entered and evaluates its condition on c.usersAt and c.users;
\* the struct has no mutex, so nothing is waited for
CorrCheck(c) ==
    /\ corr.pc[c] = "idle"
    /\ corr' = [corr EXCEPT !.pc[c] = IF Fresh(corr, now) THEN "serve" ELSE "fetch"]
    /\ UNCHANGED <<corrFrame, now>>

\* return c.users, nil
CorrServe(c) ==
    /\ corr.pc[c] = "serve"
    /\ corr' = [corr EXCEPT !.pc[c] = "idle",
                            !.ret[c] = [users |-> corr.users, err |-> FALSE, cached |-> TRUE]]
    /\ UNCHANGED <<corrFrame, now>>

\* c.client.GetUsers returns a list
CorrFetchOk(c, users) ==
    /\ corr.pc[c] = "fetch"
    /\ corr' = [corr EXCEPT !.pc[c] = "write", !.local[c] = users]
    /\ UNCHANGED <<corrFrame, now>>

\* c.client.GetUsers fails: return nil, err
CorrFetchFail(c) ==
    /\ corr.pc[c] = "fetch"
    /\ corr' = [corr EXCEPT !.pc[c] = "idle",
                            !.ret[c] = [users |-> <<>>, err |-> TRUE, cached |-> FALSE]]
    /\ UNCHANGED <<corrFrame, now>>

\* c.users = users
CorrWriteUsers(c) ==
    /\ corr.pc[c] = "write"
    /\ corr' = [corr EXCEPT !.pc[c] = "stamp", !.users = corr.local[c]]
    /\ UNCHANGED <<corrFrame, now>>

\* c.usersAt = time.Now(); return users, nil
CorrWriteAt(c) ==
    /\ corr.pc[c] = "stamp"
    /\ corr' = [corr EXCEPT !.pc[c] = "idle", !.usersAt = now, !.local[c] = <<>>,
                            !.ret[c] = [users |-> corr.local[c], err |-> FALSE,
                                        cached |-> FALSE]]
    /\ UNCHANGED <<corrFrame, now>>

\* a Correlator just built, long after the zero time
InitCorr ==
    /\ NewSyncer
    /\ articles = <<>>
    /\ genCfg = [llm |-> TRUE, tavily |-> TRUE, exa |-> TRUE, firecrawl |-> TRUE]
    /\ task = [t \in Tasks |-> NoTask]
    /\ NewScheduler
    /\ AtRest
    /\ config = DefaultSyncerConfig
    /\ store = EmptyMap
    /\ now = CacheTTL + 1

\* two tasks call GetTrackedUsers while the clock runs
NextCorr ==
    \/ WithinClock /\ Tick
    \/ \E c \in Callers :
          \/ CorrCheck(c)
          \/ CorrServe(c)
          \/ \E users \in UserLists : CorrFetchOk(c, users)
          \/ CorrFetchFail(c)
          \/ CorrWriteUsers(c)
          \/ CorrWriteAt(c)

SpecCorr == InitCorr /\ [][NextCorr]_vars

\* a caller is between its reads of c.usersAt and c.users
Reading(c) == corr.pc[c] = "serve"

\* a caller is between its writes of c.users and c.usersAt
Writing(c) == corr.pc[c] = "stamp"

\* C34: the accesses to the tracked-user cache exclude one another (no caller reads or
\* writes the list and its timestamp while another caller writes them), and the
\* cached list is returned only by a call that found it younger than five minutes.
C34_UserCacheExclusive ==
    /\ [](\A c \in Callers : \A d \in Callers \ {c} : ~(Writing(c) /\ (Reading(d) \/ Writing(d))))
    /\ [][\A c \in Callers :
             (corr.pc[c] = "idle" /\ corr'.pc[c] = "serve") => now - corr.usersAt < CacheTTL]_vars

\* ------------------------------------------------------- admin: run a job
StatusOK == 200
StatusBadRequest == 400
StatusNotFound == 404

\* Scheduler.RunJobNow: the first job of that name gets a goroutine running it; the
\* error returned is nil on every path
RunJobNow(jobs, name) ==
    LET hits == {i \in DOMAIN jobs : jobs[i].name = name}
    IN IF hits = {}
       THEN [jobs |-> jobs, err |-> FALSE]
       ELSE LET first == CHOOSE i \in hits : \A j \in hits : i <= j
            IN [jobs |-> [jobs EXCEPT ![first].runs = @ + 1], err |-> FALSE]

\* Server.AdminRunJob with a Scheduler: 400 without a name, 404 when RunJobNow
\* returns an error, 200 otherwise
AdminRunJob(name) ==
    LET r == RunJobNow(sched.jobs, name)
    IN /\ IF name = ""
          THEN /\ admin' = [route |-> "run-job", name |-> name, status |-> StatusBadRequest,
                            served |-> admin.served + 1]
               /\ UNCHANGED sched
          ELSE /\ admin' = [route |-> "run-job", name |-> name,
                            status |-> IF r.err THEN StatusNotFound ELSE StatusOK,
                            served |-> admin.served + 1]
               /\ sched' = [sched EXCEPT !.jobs = r.jobs]
       /\ UNCHANGED <<contentVars, config, cache, store, busVars, lifeVars, syncVars,
                      emitCount, now, panicked, cacheMux, snap, call, corr, genCalls>>

\* the names a request can carry: none, registered ones, one that is not registered
JobNames == {"", "first", "second", "nope"}

WithinRequests == admin.served < MaxRequests

\* one round of the job loop of a Scheduler with two jobs, and admin requests to run
\* a job
NextAdmin ==
    \/ JobWake
    \/ JobCheck(0)
    \/ WithinRequests /\ \E name \in JobNames : AdminRunJob(name)

SpecAdmin == InitJobs /\ [][NextAdmin]_vars

\* the runs of the first n jobs of the table
RECURSIVE SumRuns(_, _)
SumRuns(jobs, n) == IF n = 0 THEN 0 ELSE jobs[n].runs + SumRuns(jobs, n - 1)

\* the job runs started so far
RunsStarted(jobs) == SumRuns(jobs, Len(jobs))

\* the step in which a run-job request with this name is served
RunJobServed(name) ==
    admin'.served = admin.served + 1 /\ admin'.route = "run-job" /\ admin'.name = name

\* C35: a run-job request for a name that is not registered is answered 404 and starts
\* no job; a request for a registered name starts exactly one run of that job.
C35_RunJobByName ==
    [][\A name \in JobNames \ {""} :
          RunJobServed(name) =>
             IF \E i \in DOMAIN sched.jobs : sched.jobs[i].name = name
             THEN /\ RunsStarted(sched'.jobs) = RunsStarted(sched.jobs) + 1
                  /\ \E i \in DOMAIN sched.jobs :
                        /\ sched.jobs[i].name = name
                        /\ sched'.jobs[i].runs = sched.jobs[i].runs + 1
             ELSE /\ admin'.status = StatusNotFound
                  /\ sched'.jobs = sched.jobs]_vars

\* C36: at most one new_market event is emitted per market_id in a process lifetime,
\* also when a SyncNow pass runs beside the periodic pass: the internal queue, which
\* nothing drains here, never holds two new_market events of one market.
C36_OneNewMarketPerMarket ==
    \A i \in DOMAIN events : \A j \in DOMAIN events :
        (/\ i # j
         /\ events[i].type = EventNewMarket
         /\ events[j].type = EventNewMarket) => events[i].market.market_id # events[j].market.market_id

\* the dispatcher's send on a subscriber channel
SubscriberSend == dispPc = "deliver" /\ dispIdx <= Len(subscribers) /\ dispIdx' = dispIdx + 1

\* C37: nothing sends on the internal queue after Stop closed it, nor on a subscriber
\* channel after Stop closed it, also when a SyncNow pass is under way or is started
\* while Stop runs; no send panics.
C37_NoSendOnClosedChannel ==
    /\ [][EmitCalled => ~eventsClosed]_vars
    /\ [][SubscriberSend => ~subscribers[dispIdx].closed]_vars
    /\ [](~panicked)

\* ------------------------------------------------------------- shutdown
\* the Syncer from Start to the return of Stop: the four loops, the periodic passes
\* and a subscriber that may or may not read
NextStop ==
    \/ Start
    \/ \E i \in DOMAIN subscribers : Receive(i)
    \/ WithinPasses /\ LoopTick
    \/ LoopExit
    \/ FetchFail("loop")
    \/ \E batch \in Batches(BusMarkets) : FetchOk("loop", batch)
    \/ ProcRead("loop")
    \/ ProcEmit("loop")
    \/ ProcCacheWrite("loop")
    \/ ProcUpsertOk("loop")
    \/ ProcUpsertFail("loop")
    \/ PassEnd("loop")
    \/ DispatchDequeue
    \/ DispatchSend
    \/ DispatchUnlock
    \/ DispatchExit
    \/ SnapshotExit
    \/ CleanupExit
    \/ StopCancel
    \/ StopWait
    \/ StopCloseEvents
    \/ StopCloseSubs

\* every goroutine keeps running: a call under way returns, a loop in its select
\* takes one of the ready cases, and the select picks among ready cases at random, so
\* a case that is ready again and again is taken; nothing is assumed of the
\* subscribers, of the ticker or of the caller of Stop
FairStop ==
    /\ WF_vars(FetchFail("loop") \/ \E batch \in Batches(BusMarkets) : FetchOk("loop", batch))
    /\ WF_vars(ProcRead("loop"))
    /\ WF_vars(ProcEmit("loop"))
    /\ WF_vars(ProcCacheWrite("loop"))
    /\ WF_vars(ProcUpsertOk("loop") \/ ProcUpsertFail("loop"))
    /\ WF_vars(PassEnd("loop"))
    /\ WF_vars(DispatchSend)
    /\ WF_vars(DispatchUnlock)
    /\ SF_vars(LoopExit)
    /\ SF_vars(DispatchExit)
    /\ SF_vars(SnapshotExit)
    /\ SF_vars(CleanupExit)
    /\ WF_vars(StopWait)
    /\ WF_vars(StopCloseEvents)
    /\ WF_vars(StopCloseSubs)

\* a Syncer just built, with the Scheduler's subscription
InitStop ==
    /\ cache = EmptyMap
    /\ events = <<>>
    /\ eventsClosed = FALSE
    /\ subscribers = <<[buf |-> <<>>, closed |-> FALSE]>>
    /\ lastRecv = <<0>>
    /\ cancelled = FALSE
    /\ started = FALSE
    /\ stopPc = "none"
    /\ snapPc = "idle"
    /\ cleanPc = "idle"
    /\ dispPc = "idle"
    /\ dispEv = NoEvent
    /\ dispIdx = 0
    /\ pc = [w \in Workers |-> "idle"]
    /\ todo = [w \in Workers |-> <<>>]
    /\ cur = [w \in Workers |-> NoLocal]
    /\ emitCount = 0
    /\ passCount = 0
    /\ panicked = FALSE
    /\ config = DefaultSyncerConfig
    /\ store = EmptyMap
    /\ now = 1
    /\ NewGenerator

SpecStop == InitStop /\ [][NextStop]_vars /\ FairStop

MoveMarkets == Upstream({"m1"}, {42, 50, 52, 95}, {60000}, {0})

\* a running engine whose cache holds the market and whose periodic pass has fetched
\* one more observation of it; the Scheduler is subscribed
InitMove ==
    /\ config = DefaultSyncerConfig
    /\ \E a \in MoveMarkets :
          LET listed == DiffMarket(convertMarketWithEvent(a, 1), FALSE, NoMarket, 1)
          IN cache = Put(EmptyMap, a.id, listed) /\ store = cache
    /\ events = <<>>
    /\ eventsClosed = FALSE
    /\ subscribers = <<[buf |-> <<>>, closed |-> FALSE]>>
    /\ lastRecv = <<0>>
    /\ cancelled = FALSE
    /\ started = TRUE
    /\ stopPc = "none"
    /\ snapPc = "run"
    /\ cleanPc = "run"
    /\ dispPc = "select"
    /\ dispEv = NoEvent
    /\ dispIdx = 0
    /\ pc = [w \in Workers |-> IF w = "loop" THEN "process" ELSE "idle"]
    /\ todo \in {[w \in Workers |-> IF w = "loop" THEN <<b>> ELSE <<>>] : b \in MoveMarkets}
    /\ cur = [w \in Workers |-> NoLocal]
    /\ emitCount = 1
    /\ passCount = 2
    /\ panicked = FALSE
    /\ now = 1
    /\ articles = <<>>
    /\ genCfg = [llm |-> TRUE, tavily |-> TRUE, exa |-> FALSE, firecrawl |-> FALSE]
    /\ task = [t \in Tasks |-> NoTask]
    /\ NewScheduler
    /\ AtRest

\* the update from the cache lookup to the upsert, the dispatcher, the Scheduler's
\* event loop and the Generator operations it calls
NextMove ==
    \/ ProcRead("loop")
    \/ ProcEmit("loop")
    \/ ProcCacheWrite("loop")
    \/ ProcUpsertOk("loop")
    \/ ProcUpsertFail("loop")
    \/ PassEnd("loop")
    \/ DispatchDequeue
    \/ DispatchSend
    \/ DispatchUnlock
    \/ SchedReceive
    \/ \E out \in EnrichOutcomes(genCfg) : GenEnrich("events", out)
    \/ \E reply \in LLMReplies : GenAsk("events", reply)
    \/ GenContent("events")
    \/ GenSave("events")
    \/ GenSaveFail("events")

SpecMove == InitMove /\ [][NextMove]_vars

\* the event is a breaking_move or a crossing of a threshold of 0.75 or more
CallsForBreaking(e) ==
    \/ e.type = EventBreakingMove
    \/ e.type = EventThresholdCross /\ e.meta.threshold >= 75

\* the events of that kind among the first n of a channel
RECURSIVE CountBreaking(_, _)
CountBreaking(buf, n) ==
    IF n = 0 THEN 0
    ELSE (IF CallsForBreaking(buf[n]) THEN 1 ELSE 0) + CountBreaking(buf, n - 1)

\* GenerateBreaking calls made, and those the events waiting in the Scheduler's
\* channel will make
BreakingDue == genCalls["breaking"] + CountBreaking(subscribers[1].buf, Len(subscribers[1].buf))

\* C39: for one update of a cached market the Scheduler calls GenerateBreaking once
\* for the delivered breaking_move event and once for every delivered threshold_cross
\* event with a threshold of 0.75 or more, with no deduplication: each such event
\* delivered adds one call, taking it off the channel makes the call, nothing else
\* does, and one update makes up to three calls.
C39_BreakingCallsPerUpdate ==
    /\ [][\/ BreakingDue' = BreakingDue
          \/ /\ BreakingDue' = BreakingDue + 1
             /\ dispPc = "deliver"
             /\ CallsForBreaking(dispEv)
             /\ subscribers'[1].buf = Append(subscribers[1].buf, dispEv)]_vars
    /\ [][lastRecv' # lastRecv =>
            genCalls'["breaking"] = genCalls["breaking"]
               + (IF CallsForBreaking(Head(subscribers[1].buf)) THEN 1 ELSE 0)]_vars
    /\ [][genCalls' # genCalls => lastRecv' # lastRecv]_vars
    /\ [](genCalls["breaking"] <= 3)

\* one move from 0.42 to 0.95 has made three GenerateBreaking calls
C39_Witness ==
    /\ genCalls["breaking"] = 3
    /\ genCalls["new_market"] = 0
    /\ "m1" \in DOMAIN cache
    /\ cache["m1"].previous_prob = 42
    /\ cache["m1"].probability = 95

\* the step in which a pass returns
PassReturned(w) == pc[w] = "process" /\ pc'[w] = AfterPass(w)

\* the market but for its score
Unscored(m) == [m EXCEPT !.trending_score = 0]

\* C40: when a sync pass has completed, every market whose row the pass brought in
\* line with its cache entry has in the Store the trending_score it has in the cache.
C40_StoredScoreIsCachedScore ==
    [][\A w \in Workers :
          PassReturned(w) =>
             \A id \in DOMAIN store' \cap DOMAIN cache' :
                Unscored(store'[id]) = Unscored(cache'[id])
                   => store'[id].trending_score = cache'[id].trending_score]_vars

====
